---- MODULE Spec2Model ----
(***************************************************************************)
(* Conic Launcher: download engine (crates/download), install orchestrator *)
(* (crates/install) and launch entry point (crates/launch).                *)
(*                                                                         *)
(* The specifications of the module share its variables; each one moves   *)
(* the variables of one subsystem and leaves the others at rest, e.g.      *)
(*   SpecDownload  - download_concurrent, run once or twice on one disk    *)
(*   SpecInstall   - cmd_create_install_task / cmd_cancel_install_task     *)
(*   SpecLaunch    - cmd_launch                                            *)
(***************************************************************************)
EXTENDS Integers, Sequences, FiniteSets, TLC

(***************************************************************************)
(* Bounds of the model                                                     *)
(***************************************************************************)
NTasks == 2
MaxConn == 2
MaxRuns == 2
NInstalls == 2
NLaunches == 3
MaxTicks == 2
MaxLines == 2
NCallers == 2
MaxClock == 2
MaxOps == 3
MaxHours == 3
MaxRules == 2
MaxChain == 2
MaxMB == 120
MaxSleeps == 3
MaxPeriods == 2
MaxChunks == 2
MaxSegs == 3
MaxTemplate == 5
MaxWalk == 4

(***************************************************************************)
(* Program constants                                                       *)
(***************************************************************************)
MaxRetried_six == 5 + 1

MaxRetried == 5

TaskIds == 1..NTasks

(***************************************************************************)
(* URLs.  A URL string is a sequence of tokens <<scheme, host, seg, ...>>; *)
(* a string without a scheme does not parse.                               *)
(***************************************************************************)
LibrariesPrefix == <<"https", "libraries.minecraft.net">>
AssetsPrefix == <<"https", "resources.download.minecraft.net">>

default_libraries ==
  { <<"https", "libraries.minecraft.net">>,
    <<"https", "bmclapi2.bangbang93.com", "maven">> }

default_assets ==
  { <<"https", "resources.download.minecraft.net">>,
    <<"https", "bmclapi2.bangbang93.com", "assets">> }

MirrorConfigs ==
  { [libraries |-> default_libraries, assets |-> default_assets],
    [libraries |-> {}, assets |-> {}] }

UrlParses(url) == Len(url) >= 1 /\ url[1] \in {"https", "http"}
host_str(url) == IF Len(url) >= 2 THEN url[2] ELSE "nohost"
UrlScheme(url) == url[1]
UrlPath(url) == SubSeq(url, 3, Len(url))

IsPrefixOf(p, s) == Len(p) <= Len(s) /\ SubSeq(s, 1, Len(p)) = p
IsSuffixOf(p, s) == Len(p) <= Len(s) /\ SubSeq(s, Len(s) - Len(p) + 1, Len(s)) = p

replace_drops_rest(s, pat, to) ==
  IF Len(pat) > 0 /\ Len(pat) <= Len(s) /\ SubSeq(s, 1, Len(pat)) = pat THEN to ELSE s

\* str::replace: every non-overlapping occurrence of pat, left to right
RECURSIVE replace(_, _, _)
replace(s, pat, to) ==
  IF Len(s) < Len(pat) \/ Len(pat) = 0 THEN s
  ELSE IF SubSeq(s, 1, Len(pat)) = pat
       THEN to \o replace(SubSeq(s, Len(pat) + 1, Len(s)), pat, to)
       ELSE <<Head(s)>> \o replace(Tail(s), pat, to)

(***************************************************************************)
(* File contents and digests.  "x" is the content the checksums below were *)
(* computed from, "y" is any other byte string (truncated, corrupt, stale) *)
(***************************************************************************)
Contents == {"x", "y"}
NoFile == "absent"

\* sha1_smol Digest::to_string and format!("{:02x}") give lower-case hex
Sha1Of(c) == IF c = "x" THEN "aa" ELSE "bb"
Sha256Of(c) == IF c = "x" THEN "cc" ELSE "dd"
ToLower(h) == CASE h = "AA" -> "aa" [] h = "CC" -> "cc" [] OTHER -> h

ChecksumNone == [kind |-> "None", hex |-> ""]
Sha1(h) == [kind |-> "Sha1", hex |-> h]
Sha256(h) == [kind |-> "Sha256", hex |-> h]

\* Hasher::from(checksum), update over the whole content, then verify
HasherVerify(content, checksum) ==
  CASE checksum.kind = "Sha1" -> Sha1Of(content) = checksum.hex
    [] checksum.kind = "Sha256" -> Sha256Of(content) = checksum.hex
    [] OTHER -> TRUE

\* Option<bool>: "none" when the task carries no checksum
verify_checksum_from_read(content, checksum) ==
  IF checksum = ChecksumNone THEN "none"
  ELSE IF HasherVerify(content, checksum) THEN "true" ELSE "false"

(***************************************************************************)
(* Download tasks the callers build                                        *)
(***************************************************************************)
TemplateSeq ==
  << \* two libraries of the resolved version
     [url |-> <<"https", "libraries.minecraft.net", "lib.jar">>, file |-> "libraries/lib.jar",
      size_bytes |-> TRUE, checksum |-> Sha1("aa"), type |-> "Libraries"],
     [url |-> <<"https", "maven.fabricmc.net", "lib2.jar">>, file |-> "libraries/lib2.jar",
      size_bytes |-> FALSE, checksum |-> Sha1("aa"), type |-> "Libraries"],
     \* an asset object
     [url |-> <<"https", "resources.download.minecraft.net", "aa", "aa">>, file |-> "assets/objects/aa/aa",
      size_bytes |-> FALSE, checksum |-> Sha1("aa"), type |-> "Unknown"],
     \* the client jar, checksum recorded in upper case
     [url |-> <<"https", "piston-data.mojang.com", "client.jar">>, file |-> "versions/v/v.jar",
      size_bytes |-> TRUE, checksum |-> Sha1("AA"), type |-> "Unknown"],
     \* the asset index
     [url |-> <<"https", "piston-meta.mojang.com", "index.json">>, file |-> "assets/indexes/v.json",
      size_bytes |-> FALSE, checksum |-> ChecksumNone, type |-> "Unknown"],
     \* authlib-injector
     [url |-> <<"https", "authlib-injector.yushi.moe", "a.jar">>, file |-> "versions/v/authlib-injector.jar",
      size_bytes |-> FALSE, checksum |-> Sha256("cc"), type |-> "AuthlibInjector"],
     \* a task whose url does not parse
     [url |-> <<"not a url">>, file |-> "tmp/z",
      size_bytes |-> FALSE, checksum |-> Sha1("aa"), type |-> "Unknown"] >>

Templates == { TemplateSeq[k] : k \in 1..Len(TemplateSeq) }

\* the task lists tried: NTasks consecutive templates, from every start
TaskLists ==
  { [t \in 1..NTasks |-> TemplateSeq[((s + t - 2) % Len(TemplateSeq)) + 1]] :
      s \in 1..Len(TemplateSeq) }

Files == { t.file : t \in Templates }

\* DownloadTask::classify: the Err(UrlParse) branch, and the Ok value
ClassifyFails(task) == task.type = "Unknown" /\ ~UrlParses(task.url)

classify(task) ==
  IF task.type # "Unknown" THEN task
  ELSE IF Len(task.url) < 2 THEN task
  ELSE [task EXCEPT !.type =
          CASE host_str(task.url) = "resources.download.minecraft.net" -> "Assets"
            [] host_str(task.url) = "libraries.minecraft.net" -> "Libraries"
            [] OTHER -> "Unknown"]

(***************************************************************************)
(* Mirrors                                                                 *)
(***************************************************************************)
NoMirror == <<>>

\* MirrorUsage::new: one zeroed counter per configured mirror
MirrorUsageNew(mirror_config) ==
  [libraries |-> [m \in mirror_config.libraries |-> 0],
   assets |-> [m \in mirror_config.assets |-> 0]]

InSeq(x, seq) == \E i \in 1..Len(seq) : seq[i] = x

get_mirror_ignores_disabled(counters, disabled) ==
  { m \in DOMAIN counters : \A o \in DOMAIN counters : counters[m] <= counters[o] }

\* get_libraries_mirror / get_assets_mirror: min_by over a HashMap, whose
\* iteration order is arbitrary, so any mirror of least count may come out
get_mirror(counters, disabled) ==
  { m \in DOMAIN counters :
      /\ ~InSeq(m, disabled)
      /\ \A o \in DOMAIN counters : ~InSeq(o, disabled) => counters[m] <= counters[o] }

\* DownloadTask::assignment_mirror: the set of possible Some((task, mirror));
\* the empty set is None
assignment_mirror(task, usage, disabled) ==
  CASE task.type = "Libraries" ->
         { [task |-> [task EXCEPT !.url = replace(task.url, LibrariesPrefix, m)], mirror |-> m] :
             m \in get_mirror(usage.libraries, disabled) }
    [] task.type = "Assets" ->
         { [task |-> [task EXCEPT !.url = replace(task.url, AssetsPrefix, m)], mirror |-> m] :
             m \in get_mirror(usage.assets, disabled) }
    [] OTHER -> {}

Bump_never_counts(usage, type, m, d) == usage

\* the counter update of fetch_add / fetch_sub on the mirror of a task kind
Bump(usage, type, m, d) ==
  CASE m = NoMirror -> usage
    [] type = "Libraries" -> [usage EXCEPT !.libraries[m] = @ + d]
    [] type = "Assets" -> [usage EXCEPT !.assets[m] = @ + d]
    [] OTHER -> usage

(***************************************************************************)
(* State                                                                   *)
(***************************************************************************)
VARIABLES
  \* ---- download engine ----
  download_config,   \* [max_connections, mirror]
  tasks,             \* the Vec<DownloadTask> handed to download_concurrent
  disk,              \* file path -> content or NoFile
  dc_pc,             \* "start" | "streaming" | "done"
  dc_result,         \* [kind |-> "pending" | "Ok" | <error kind>, task |-> id or 0]
  t_state,           \* task -> "new" | "skipped" | "queued" | "inflight" | "ok" | "failed" | "dropped"
  download_tasks,    \* the classified tasks that survived the pre-filter
  retried,           \* task -> value of `retried` in inner_download_future
  disabled_mirrors,  \* task -> the task's own blacklist
  cur,               \* task -> [task, mirror] of the attempt being executed
  mirror_usage,      \* in-flight counter of every mirror
  progress,          \* [completed, total, step]
  attempts,          \* history: task -> mirrors of its attempts, in order
  written,           \* history: tasks whose target file was opened for writing in this run
  run,               \* history: number of the download_concurrent run on this disk
  \* ---- install orchestrator ----
  current_task,      \* PluginState.current_task: 0 (None) or the call whose AbortHandle it holds
  i_pc,              \* call -> position in cmd_create_install_task / install
  i_result,          \* call -> what cmd_create_install_task returned
  is_aborted,        \* call -> the aborted flag shared by its AbortHandle and Abortable
  mod_loader,        \* call -> runtime.mod_loader_type.is_some()
  status,            \* call -> the InstallEvent the sender thread publishes
  stage_log,         \* history: call -> stages that returned success, in order
  wrote_lock,        \* history: call -> this install wrote .install.lock
  install_lock,      \* the .install.lock marker of the instance exists
  kept_files,        \* files the install steps have put on disk
  cancelled,         \* history: call -> its handle was aborted while the install was running
  java_file,         \* call -> the File entry of the runtime manifest on disk: "untried" | "good" | "bad" | "missing"
  \* ---- launch ----
  l_pc,              \* call -> position in cmd_launch / launch
  l_opts,            \* call -> [skip_refresh_account, skip_check_files]
  \* ---- complete_files ----
  now,               \* the wall clock, epoch seconds
  markers,           \* kind -> the .conic-<kind>-ok file of the instance
  cf_pc,             \* position of the running complete_files call
  skip_age,          \* history: kind -> age of the marker this call honoured, -1 if none
  verify_runs,       \* history: kind -> verification passes run so far
  cf_disk,           \* kind -> the file of that task list: "good" | "bad" | "missing"
  \* ---- spawn_minecraft_process ----
  child_out,         \* lines the child has still to write to stdout
  child_exited,      \* the child process has exited
  pipe,              \* lines written to the stdout pipe and not yet read
  buf,               \* the String read_line appends to, as its lines
  r_pc,              \* position of the reader loop
  events,            \* events emitted on MAIN_WINDOW, in order
  child_wrote,       \* history: lines the child has written, in order
  \* ---- account::microsoft ----
  ms_file,           \* accounts.microsoft.json: [exists, accounts]
  clock,             \* SystemTime::now(), epoch seconds
  ms_call,           \* caller -> the call it is making on the Microsoft store
  ms_deleted,        \* history: uuids removed by delete_account and not added since
  \* ---- the three account stores, one command at a time ----
  st_kind,           \* the store the commands are made on
  store,             \* the file of that store: [exists, accounts]
  st_clock,          \* commands made so far; the system clock read by a command
  st_prior,          \* history: the store before the last command
  st_last,           \* history: the last command and what it returned
  rt,                \* history: the add_account a delete_account may undo
  \* ---- the version-list commands ----
  vl_cache,          \* list kind -> the Option<(u64, payload)> of PluginState
  vl_now,            \* SystemTime::now(), epoch seconds
  vl_call,           \* the version-list command being served, or the last one served
  \* ---- version::checks ----
  rl_platform,       \* PLATFORM_INFO
  rl_rules,          \* the rules argument of check_allowed
  rl_enabled,        \* the enabled_features argument, in the caller's order
  rl_idx,            \* rules the for loop has gone through
  rl_allow,          \* the local `allow`
  rl_ret,            \* what check_allowed returned: "none" until it returns
  \* ---- version::resolve ----
  rv_chain,          \* history: the version JSONs of the chain, the root last
  rv_versions,       \* the local `versions`: what is still to be popped
  rv_enabled,        \* the enabled_features argument
  rv_platform,       \* PLATFORM_INFO
  rv_minimum_launcher_version,  \* resolved_version.minimum_launcher_version
  rv_arguments,      \* resolved_version.arguments
  rv_resolved,       \* resolved_version: main_class, asset_index, downloads, java_version, libraries
  rv_libraries_raw,  \* the local `libraries_raw`
  rv_ret,            \* what resolve returned: "none" until it returns
  \* ---- calculate_chunks_length ----
  ck_length,         \* the argument `length`
  ck_pc,             \* position in calculate_chunks_length
  chunk_count,       \* the local `chunk_count`
  chunk_size,        \* the local `chunk_size`
  ck_i,              \* the loop variable `i`
  chunks,            \* the Vec being built; what the function returns
  \* ---- speed sampler and throttled writer ----
  max_download_speed,   \* config.max_download_speed
  speed,                \* progress.speed
  speed_counter_input,  \* the per-run byte counter
  scoped_is_aborted,    \* ScopedThread.is_aborted, the flag Drop stores to
  finished,             \* the `finished` flag speed_counter_loop was given
  sampler_pc,           \* "spawned" | "sleeping" | "returned"
  buffer,               \* the sampler's local Vec of samples
  wake_at,              \* when the sampler's thread::sleep ends, ms
  sp_now,               \* time since the call began, ms
  writer_pc,            \* "await" | "check" | "sleep" | "write" | "returned"
  sp_left,              \* chunks the response has still to deliver
  sp_written,           \* history: chunks written to the file
  sp_sleeps,            \* history: 100 ms sleeps of the writer
  \* ---- paths written from descriptors and archives ----
  pt_input,          \* [kind, path, is_dir]: a library `path` or a zip entry
  pt_pc,             \* "start" | "written"
  pt_written,        \* the path handed to the file system
  \* ---- launch::arguments::format ----
  fm_template,       \* the template, as its characters
  fm_is_game_option, \* the is_game_option argument
  fm_pc,             \* "start" | "done"
  fm_out,            \* what format returned
  \* ---- Version::resolve, the inheritance walk ----
  wk_dir,            \* the versions directory: id -> inheritsFrom of <id>/<id>.json
  inherits_from,     \* the local `inherits_from`
  wk_versions,       \* ids of the descriptors pushed to `versions`, self first
  wk_pc              \* "walk" | "joining" | "Err"

dl_vars == <<download_config, tasks, disk, dc_pc, dc_result, t_state, download_tasks,
             retried, disabled_mirrors, cur, mirror_usage, progress, attempts, written, run>>

inst_vars == <<current_task, i_pc, i_result, is_aborted, mod_loader, status, stage_log,
               wrote_lock, install_lock, kept_files, cancelled, java_file>>

launch_vars == <<l_pc, l_opts>>

complete_vars == <<now, markers, cf_pc, skip_age, verify_runs, cf_disk>>
reader_vars == <<child_out, child_exited, pipe, buf, r_pc, events, child_wrote>>
ms_vars == <<ms_file, clock, ms_call, ms_deleted>>
store_vars == <<st_kind, store, st_clock, st_prior, st_last, rt>>
cache_vars == <<vl_cache, vl_now, vl_call>>
rule_vars == <<rl_platform, rl_rules, rl_enabled, rl_idx, rl_allow, rl_ret>>
resolve_vars == <<rv_chain, rv_versions, rv_enabled, rv_platform, rv_minimum_launcher_version,
                  rv_arguments, rv_resolved, rv_libraries_raw, rv_ret>>

chunk_vars == <<ck_length, ck_pc, chunk_count, chunk_size, ck_i, chunks>>

speed_vars == <<max_download_speed, speed, speed_counter_input, scoped_is_aborted, finished,
                sampler_pc, buffer, wake_at, sp_now, writer_pc, sp_left, sp_written, sp_sleeps>>

path_vars == <<pt_input, pt_pc, pt_written>>
format_vars == <<fm_template, fm_is_game_option, fm_pc, fm_out>>

walk_vars == <<wk_dir, inherits_from, wk_versions, wk_pc>>

\* the subsystems added after the download engine, the installer and cmd_launch
ext_vars == <<complete_vars, reader_vars, ms_vars, store_vars, cache_vars, rule_vars, resolve_vars, chunk_vars, speed_vars, path_vars, format_vars, walk_vars>>

vars == <<dl_vars, inst_vars, launch_vars, ext_vars>>

\* what a step of one subsystem leaves alone
DownloadOnly == UNCHANGED <<inst_vars, launch_vars, ext_vars>>
InstallOnly == UNCHANGED <<dl_vars, launch_vars, ext_vars>>
LaunchOnly == UNCHANGED <<dl_vars, inst_vars, ext_vars>>
CoreIdle == UNCHANGED <<dl_vars, inst_vars, launch_vars>>
CompleteOnly == CoreIdle /\ UNCHANGED <<reader_vars, ms_vars, store_vars, cache_vars, rule_vars, resolve_vars, chunk_vars, speed_vars, path_vars, format_vars, walk_vars>>
ReaderOnly == CoreIdle /\ UNCHANGED <<complete_vars, ms_vars, store_vars, cache_vars, rule_vars, resolve_vars, chunk_vars, speed_vars, path_vars, format_vars, walk_vars>>
MicrosoftOnly == CoreIdle /\ UNCHANGED <<complete_vars, reader_vars, store_vars, cache_vars, rule_vars, resolve_vars, chunk_vars, speed_vars, path_vars, format_vars, walk_vars>>
StoresOnly == CoreIdle /\ UNCHANGED <<complete_vars, reader_vars, ms_vars, cache_vars, rule_vars, resolve_vars, chunk_vars, speed_vars, path_vars, format_vars, walk_vars>>
CacheOnly == CoreIdle /\ UNCHANGED <<complete_vars, reader_vars, ms_vars, store_vars, rule_vars, resolve_vars, chunk_vars, speed_vars, path_vars, format_vars, walk_vars>>
RulesOnly == CoreIdle /\ UNCHANGED <<complete_vars, reader_vars, ms_vars, store_vars, cache_vars, resolve_vars, chunk_vars, speed_vars, path_vars, format_vars, walk_vars>>
ResolveOnly == CoreIdle /\ UNCHANGED <<complete_vars, reader_vars, ms_vars, store_vars, cache_vars, rule_vars, chunk_vars, speed_vars, path_vars, format_vars, walk_vars>>
ChunksOnly == CoreIdle /\ UNCHANGED <<complete_vars, reader_vars, ms_vars, store_vars, cache_vars, rule_vars, resolve_vars, speed_vars, path_vars, format_vars, walk_vars>>
SpeedOnly == CoreIdle /\ UNCHANGED <<complete_vars, reader_vars, ms_vars, store_vars, cache_vars, rule_vars, resolve_vars, chunk_vars, path_vars, format_vars, walk_vars>>
PathsOnly == CoreIdle /\ UNCHANGED <<complete_vars, reader_vars, ms_vars, store_vars, cache_vars, rule_vars, resolve_vars, chunk_vars, speed_vars, format_vars, walk_vars>>
FormatOnly == CoreIdle /\ UNCHANGED <<complete_vars, reader_vars, ms_vars, store_vars, cache_vars, rule_vars, resolve_vars, chunk_vars, speed_vars, path_vars, walk_vars>>
WalkOnly == CoreIdle /\ UNCHANGED <<complete_vars, reader_vars, ms_vars, store_vars, cache_vars, rule_vars, resolve_vars, chunk_vars, speed_vars, path_vars, format_vars>>

(***************************************************************************)
(* download_concurrent                                                     *)
(***************************************************************************)
Pending == [kind |-> "pending", task |-> 0]
Ok == [kind |-> "Ok", task |-> 0]
Err(kind, t) == [kind |-> kind, task |-> t]

ProgressDefault == [completed |-> 0, total |-> 0, step |-> "DownloadFiles"]

\* the filter_op closure of filter_existing_and_verified_files: TRUE keeps the task
filter_op(download, d) ==
  IF d[download.file] = NoFile THEN TRUE
  ELSE LET check_result == verify_checksum_from_read(d[download.file], download.checksum)
       IN  IF check_result = "none" THEN TRUE ELSE check_result = "false"

filter_existing_and_verified_files(ts, d) == { t \in DOMAIN ts : filter_op(ts[t], d) }

InitCall ==
  /\ dc_pc = "start"
  /\ dc_result = Pending
  /\ t_state = [t \in TaskIds |-> "new"]
  /\ download_tasks = tasks
  /\ retried = [t \in TaskIds |-> 0]
  /\ disabled_mirrors = [t \in TaskIds |-> <<>>]
  /\ cur = [t \in TaskIds |-> [task |-> tasks[t], mirror |-> NoMirror]]
  /\ mirror_usage = MirrorUsageNew(download_config.mirror)
  /\ progress = ProgressDefault
  /\ attempts = [t \in TaskIds |-> <<>>]
  /\ written = {}

InitDownload ==
  /\ download_config \in [max_connections : 0..MaxConn, mirror : MirrorConfigs]
  /\ tasks \in TaskLists
  /\ disk \in { d \in [Files -> {NoFile} \cup Contents] :
                 \A f \in Files : (\A t \in TaskIds : tasks[t].file # f) => d[f] = NoFile }
  /\ run = 1
  /\ InitCall

\* download_concurrent up to the stream: pre-filter, classify, progress set-up
Prefilter ==
  /\ dc_pc = "start"
  /\ LET kept == filter_existing_and_verified_files(tasks, disk)
     IN  IF \E t \in kept : ClassifyFails(tasks[t])
         THEN /\ dc_pc' = "done"
              /\ dc_result' = Err("UrlParse", CHOOSE t \in kept :
                                     /\ ClassifyFails(tasks[t])
                                     /\ \A o \in kept : ClassifyFails(tasks[o]) => t <= o)
              /\ t_state' = [t \in TaskIds |-> IF t \in kept THEN "dropped" ELSE "skipped"]
              /\ progress' = [completed |-> Cardinality({t \in TaskIds : disk[tasks[t].file] # NoFile}),
                              total |-> 0, step |-> "VerifyExistingFiles"]
              /\ UNCHANGED download_tasks
         ELSE /\ dc_pc' = IF kept = {} THEN "done" ELSE "streaming"
              /\ dc_result' = IF kept = {} THEN Ok ELSE Pending
              /\ t_state' = [t \in TaskIds |-> IF t \in kept THEN "queued" ELSE "skipped"]
              /\ download_tasks' = [t \in TaskIds |-> classify(tasks[t])]
              /\ progress' = [completed |-> 0, total |-> Cardinality(kept), step |-> "DownloadFiles"]
  /\ mirror_usage' = MirrorUsageNew(download_config.mirror)
  /\ UNCHANGED <<download_config, tasks, disk, retried, disabled_mirrors, cur, attempts, written, run>>
  /\ DownloadOnly

InFlight == { t \in TaskIds : t_state[t] = "inflight" }

StreamHasRoom_unbounded(limit) == TRUE

\* try_for_each_concurrent(limit, ..): a limit of zero is no limit
StreamHasRoom(limit) == limit = 0 \/ Cardinality(InFlight) < limit

\* one pass of the loop head of inner_download_future for task t: count the
\* attempt, assign a mirror (a: an element of assignment_mirror, or none)
BeginAttempt(t, usage, disabled) ==
  LET choices == assignment_mirror(download_tasks[t], usage, disabled)
  IN  /\ retried' = [retried EXCEPT ![t] = @ + 1]
      /\ IF choices = {}
         THEN /\ cur' = [cur EXCEPT ![t] = [task |-> download_tasks[t], mirror |-> NoMirror]]
              /\ mirror_usage' = usage
              /\ attempts' = [attempts EXCEPT ![t] = Append(@, NoMirror)]
         ELSE \E a \in choices :
              /\ cur' = [cur EXCEPT ![t] = a]
              /\ mirror_usage' = Bump(usage, download_tasks[t].type, a.mirror, 1)
              /\ attempts' = [attempts EXCEPT ![t] = Append(@, a.mirror)]

\* the stream admits the next task and its future runs to the first await
StartTask(t) ==
  /\ dc_pc = "streaming"
  /\ t_state[t] = "queued"
  /\ \A o \in TaskIds : o < t => t_state[o] # "queued"
  /\ StreamHasRoom(download_config.max_connections)
  /\ t_state' = [t_state EXCEPT ![t] = "inflight"]
  /\ BeginAttempt(t, mirror_usage, disabled_mirrors[t])
  /\ UNCHANGED <<download_config, tasks, disk, dc_pc, dc_result, download_tasks,
                 disabled_mirrors, progress, written, run>>
  /\ DownloadOnly

\* inner_download_executer (and inner_chunk_download_executer behind it) for
\* one attempt.  range: the HEAD probe saw Accept-Ranges: bytes.  resp: what
\* the server does - "neterr" refuses the request, "cut" breaks the body off,
\* a content c delivers c in full.
ServerResponses == {"neterr", "cut"} \cup Contents

inner_chunk_download_executer(task, d, resp) ==
  CASE resp = "neterr" ->
         [result |-> "Network", wrote |-> TRUE,
          disk |-> IF d[task.file] = NoFile THEN [d EXCEPT ![task.file] = "y"] ELSE d]
    [] resp = "cut" ->
         [result |-> "ChunkLengthMismatch", wrote |-> TRUE, disk |-> [d EXCEPT ![task.file] = "y"]]
    [] OTHER ->
         [result |-> "Ok", wrote |-> TRUE, disk |-> [d EXCEPT ![task.file] = resp]]

inner_download_executer(task, d, range, resp) ==
  IF task.size_bytes /\ range THEN inner_chunk_download_executer(task, d, resp)
  ELSE CASE resp = "neterr" -> [result |-> "Network", wrote |-> FALSE, disk |-> d]
         [] resp = "cut" ->
              [result |-> "Network", wrote |-> TRUE, disk |-> [d EXCEPT ![task.file] = "y"]]
         [] OTHER ->
              [result |-> IF HasherVerify(resp, task.checksum) THEN "Ok" ELSE "Sha1Missmatch",
               wrote |-> TRUE, disk |-> [d EXCEPT ![task.file] = resp]]

Outcomes(t) ==
  { inner_download_executer(cur[t].task, disk, range, resp) :
      range \in BOOLEAN, resp \in ServerResponses }

Release_keeps_count(t) == mirror_usage

\* the fetch_sub after the attempt of task t, made whatever its result
Release(t) == Bump(mirror_usage, download_tasks[t].type, cur[t].mirror, -1)

fetch_add_completed_twice(p) == [p EXCEPT !.completed = @ + 2]

\* progress.completed.fetch_add(1) at the end of a successful executer
fetch_add_completed(p) == [p EXCEPT !.completed = @ + 1]

Blacklist(t) ==
  IF cur[t].mirror = NoMirror THEN disabled_mirrors[t] ELSE Append(disabled_mirrors[t], cur[t].mirror)

\* the attempt of task t returns Ok: the task's future ends, and the stream
\* ends with it when nothing is left
AttemptSucceeds(t) ==
  /\ dc_pc = "streaming"
  /\ t_state[t] = "inflight"
  /\ \E o \in Outcomes(t) :
       /\ o.result = "Ok"
       /\ disk' = o.disk
       /\ written' = IF o.wrote THEN written \cup {t} ELSE written
  /\ mirror_usage' = Release(t)
  /\ progress' = fetch_add_completed(progress)
  /\ t_state' = [t_state EXCEPT ![t] = "ok"]
  /\ IF \A o \in TaskIds \ {t} : t_state[o] \notin {"queued", "inflight"}
     THEN dc_pc' = "done" /\ dc_result' = Ok
     ELSE UNCHANGED <<dc_pc, dc_result>>
  /\ UNCHANGED <<download_config, tasks, download_tasks, retried, disabled_mirrors, cur,
                 attempts, run>>
  /\ DownloadOnly

\* the attempt fails with retried < 5: blacklist the mirror and go round the loop
AttemptRetries(t) ==
  /\ dc_pc = "streaming"
  /\ t_state[t] = "inflight"
  /\ retried[t] < MaxRetried
  /\ \E o \in Outcomes(t) :
       /\ o.result # "Ok"
       /\ disk' = o.disk
       /\ written' = IF o.wrote THEN written \cup {t} ELSE written
  /\ disabled_mirrors' = [disabled_mirrors EXCEPT ![t] = Blacklist(t)]
  /\ BeginAttempt(t, Release(t), Blacklist(t))
  /\ UNCHANGED <<download_config, tasks, dc_pc, dc_result, t_state, download_tasks,
                 progress, run>>
  /\ DownloadOnly

\* the attempt fails with retried >= 5: the task's error ends the stream and
\* the futures still in it are dropped
AttemptGivesUp(t) ==
  /\ dc_pc = "streaming"
  /\ t_state[t] = "inflight"
  /\ retried[t] >= MaxRetried
  /\ \E o \in Outcomes(t) :
       /\ o.result # "Ok"
       /\ disk' = o.disk
       /\ written' = IF o.wrote THEN written \cup {t} ELSE written
       /\ dc_result' = Err(o.result, t)
  /\ mirror_usage' = Release(t)
  /\ disabled_mirrors' = [disabled_mirrors EXCEPT ![t] = Blacklist(t)]
  /\ t_state' = [o \in TaskIds |->
                   IF o = t THEN "failed"
                   ELSE IF t_state[o] \in {"queued", "inflight"} THEN "dropped" ELSE t_state[o]]
  /\ dc_pc' = "done"
  /\ UNCHANGED <<download_config, tasks, download_tasks, retried, cur, progress, attempts, run>>
  /\ DownloadOnly

\* install run again on the same instance: its vanilla download step calls
\* download_concurrent with the same list on the disk the last run left
Rerun ==
  /\ dc_pc = "done"
  /\ dc_result = Ok
  /\ run < MaxRuns
  /\ run' = run + 1
  /\ dc_pc' = "start"
  /\ dc_result' = Pending
  /\ t_state' = [t \in TaskIds |-> "new"]
  /\ download_tasks' = tasks
  /\ retried' = [t \in TaskIds |-> 0]
  /\ disabled_mirrors' = [t \in TaskIds |-> <<>>]
  /\ cur' = [t \in TaskIds |-> [task |-> tasks[t], mirror |-> NoMirror]]
  /\ mirror_usage' = MirrorUsageNew(download_config.mirror)
  /\ progress' = ProgressDefault
  /\ attempts' = [t \in TaskIds |-> <<>>]
  /\ written' = {}
  /\ UNCHANGED <<download_config, tasks, disk>>
  /\ DownloadOnly

DownloadNext ==
  \/ Prefilter
  \/ \E t \in TaskIds : StartTask(t)
  \/ \E t \in TaskIds : AttemptSucceeds(t)
  \/ \E t \in TaskIds : AttemptRetries(t)
  \/ \E t \in TaskIds : AttemptGivesUp(t)
  \/ Rerun

(***************************************************************************)
(* Install orchestrator: cmd_create_install_task, cmd_cancel_install_task, *)
(* install.  A step is what runs between two lock acquisitions or between  *)
(* two polls of the Abortable future; the commands run on a multi-threaded *)
(* runtime, so steps of different calls interleave.                        *)
(***************************************************************************)
InstallIds == 1..NInstalls

\* positions at which the Abortable future of a call is alive
Running == {"generate", "download", "java", "modloader", "write", "write_landed"}

StatusAt(pc) ==
  CASE pc = "generate" -> "Prepare"
    [] pc = "download" -> "InstallGame"
    [] pc = "java" -> "InstallJava"
    [] pc = "modloader" -> "InstallModLoader"
    [] OTHER -> "Prepare"

AfterStage_skips_java(pc, has_mod_loader) ==
  CASE pc = "generate" -> "download"
    [] pc = "download" -> IF has_mod_loader THEN "modloader" ELSE "write"
    [] OTHER -> "write"

\* where install goes when the await at pc returns Ok
AfterStage(pc, has_mod_loader) ==
  CASE pc = "generate" -> "download"
    [] pc = "download" -> "java"
    [] pc = "java" -> IF has_mod_loader THEN "modloader" ELSE "write"
    [] OTHER -> "write"

InitInstall ==
  /\ current_task = 0
  /\ i_pc = [i \in InstallIds |-> "idle"]
  /\ i_result = [i \in InstallIds |-> "none"]
  /\ is_aborted = [i \in InstallIds |-> FALSE]
  /\ mod_loader = [i \in InstallIds |-> FALSE]
  /\ status = [i \in InstallIds |-> "Prepare"]
  /\ stage_log = [i \in InstallIds |-> <<>>]
  /\ wrote_lock = [i \in InstallIds |-> FALSE]
  /\ install_lock \in BOOLEAN
  /\ kept_files = {}
  /\ cancelled = [i \in InstallIds |-> FALSE]
  /\ java_file = [i \in InstallIds |-> "untried"]

\* java::download_files on the File entry of the manifest: what the file may
\* be when it returns Ok(()); every failed download_and_check is only logged
java_download_files == {"good", "bad", "missing"}

\* cmd_create_install_task, the check under the first lock()
CreateCheck(i) ==
  /\ i_pc[i] = "idle"
  /\ IF current_task # 0
     THEN /\ i_pc' = [i_pc EXCEPT ![i] = "returned"]
          /\ i_result' = [i_result EXCEPT ![i] = "AlreadyInstalling"]
     ELSE /\ i_pc' = [i_pc EXCEPT ![i] = "checked"]
          /\ UNCHANGED i_result
  /\ UNCHANGED <<current_task, is_aborted, mod_loader, status, stage_log, wrote_lock,
                 install_lock, kept_files, cancelled>>
  /\ UNCHANGED java_file
  /\ InstallOnly

\* cmd_create_install_task: new handle, stored under the second lock(); the
\* future is then polled up to the first await of install
CreateRegister(i) ==
  /\ i_pc[i] = "checked"
  /\ current_task' = i
  /\ \E ml \in BOOLEAN : mod_loader' = [mod_loader EXCEPT ![i] = ml]
  /\ status' = [status EXCEPT ![i] = "Prepare"]
  /\ i_pc' = [i_pc EXCEPT ![i] = "generate"]
  /\ UNCHANGED <<i_result, is_aborted, stage_log, wrote_lock, install_lock, kept_files, cancelled>>
  /\ UNCHANGED java_file
  /\ InstallOnly

\* a poll in which the await of the current stage returns Ok
StageOk(i) ==
  /\ i_pc[i] \in {"generate", "download", "java", "modloader"}
  /\ ~is_aborted[i]
  /\ stage_log' = [stage_log EXCEPT ![i] = Append(@, i_pc[i])]
  /\ kept_files' = kept_files \cup {i_pc[i]}
  /\ i_pc' = [i_pc EXCEPT ![i] = AfterStage(i_pc[i], mod_loader[i])]
  /\ status' = [status EXCEPT ![i] = IF AfterStage(i_pc[i], mod_loader[i]) = "write"
                                    THEN @ ELSE StatusAt(AfterStage(i_pc[i], mod_loader[i]))]
  /\ IF i_pc[i] = "java"
     THEN \E file \in java_download_files : java_file' = [java_file EXCEPT ![i] = file]
     ELSE UNCHANGED java_file
  /\ UNCHANGED <<current_task, i_result, is_aborted, mod_loader, wrote_lock, install_lock, cancelled>>
  /\ InstallOnly

\* JavaRuntimeInfo::install unwraps the metadata of an executable File entry:
\* when its download has left no file the task panics
JavaPanics(i) ==
  /\ i_pc[i] = "java"
  /\ ~is_aborted[i]
  /\ java_file' = [java_file EXCEPT ![i] = "missing"]
  /\ i_pc' = [i_pc EXCEPT ![i] = "panicked"]
  /\ UNCHANGED <<current_task, i_result, is_aborted, mod_loader, status, stage_log, wrote_lock,
                 install_lock, kept_files, cancelled>>
  /\ InstallOnly

\* a poll in which the await of the current stage returns Err: `?` ends
\* install, the command joins the sender thread and returns the error
StageFails(i) ==
  /\ i_pc[i] \in {"generate", "download", "java", "modloader", "write"}
  /\ ~is_aborted[i]
  /\ i_result' = [i_result EXCEPT ![i] = i_pc[i]]
  /\ i_pc' = [i_pc EXCEPT ![i] = "returned"]
  /\ UNCHANGED <<current_task, is_aborted, mod_loader, status, stage_log, wrote_lock,
                 install_lock, kept_files, cancelled>>
  /\ UNCHANGED java_file
  /\ InstallOnly

\* async_fs::write of .install.lock: the write runs off the polling task and
\* reaches the disk before the future is polled again
WriteLands(i) ==
  /\ i_pc[i] = "write"
  /\ install_lock' = TRUE
  /\ wrote_lock' = [wrote_lock EXCEPT ![i] = TRUE]
  /\ i_pc' = [i_pc EXCEPT ![i] = "write_landed"]
  /\ UNCHANGED <<current_task, i_result, is_aborted, mod_loader, status, stage_log,
                 kept_files, cancelled>>
  /\ UNCHANGED java_file
  /\ InstallOnly

\* the poll after the write: install returns Ok(()), the command returns it
InstallReturns(i) ==
  /\ i_pc[i] = "write_landed"
  /\ ~is_aborted[i]
  /\ i_result' = [i_result EXCEPT ![i] = "Ok"]
  /\ i_pc' = [i_pc EXCEPT ![i] = "returned"]
  /\ UNCHANGED <<current_task, is_aborted, mod_loader, status, stage_log, wrote_lock,
                 install_lock, kept_files, cancelled>>
  /\ UNCHANGED java_file
  /\ InstallOnly

\* Abortable::poll finds the flag set: Err(Aborted), the inner future is dropped
ObserveAbort(i) ==
  /\ i_pc[i] \in Running
  /\ is_aborted[i]
  /\ i_result' = [i_result EXCEPT ![i] = "Aborted"]
  /\ i_pc' = [i_pc EXCEPT ![i] = "returned"]
  /\ UNCHANGED <<current_task, is_aborted, mod_loader, status, stage_log, wrote_lock,
                 install_lock, kept_files, cancelled>>
  /\ UNCHANGED java_file
  /\ InstallOnly

\* cmd_cancel_install_task, all of it under one lock()
Cancel ==
  /\ IF current_task # 0
     THEN /\ is_aborted' = [is_aborted EXCEPT ![current_task] = TRUE]
          /\ cancelled' = [cancelled EXCEPT ![current_task] = @ \/ i_pc[current_task] \in Running]
     ELSE UNCHANGED <<is_aborted, cancelled>>
  /\ current_task' = 0
  /\ UNCHANGED <<i_pc, i_result, mod_loader, status, stage_log, wrote_lock, install_lock, kept_files>>
  /\ UNCHANGED java_file
  /\ InstallOnly

InstallNext ==
  \/ \E i \in InstallIds : CreateCheck(i)
  \/ \E i \in InstallIds : CreateRegister(i)
  \/ \E i \in InstallIds : StageOk(i)
  \/ \E i \in InstallIds : StageFails(i)
  \/ \E i \in InstallIds : JavaPanics(i)
  \/ \E i \in InstallIds : WriteLands(i)
  \/ \E i \in InstallIds : InstallReturns(i)
  \/ \E i \in InstallIds : ObserveAbort(i)
  \/ Cancel

(***************************************************************************)
(* Launch: cmd_launch and launch.  Each call runs as its own task; launch  *)
(* takes no lock and returns no Error.                                     *)
(***************************************************************************)
LaunchIds == 1..NLaunches

\* the awaits of launch, in program order
LaunchActive == {"refresh", "complete_files", "resolve", "arguments"}

AfterAccount(opts) == IF opts.skip_check_files THEN "resolve" ELSE "complete_files"

AfterLaunchStep(pc, opts) ==
  CASE pc = "refresh" -> AfterAccount(opts)
    [] pc = "complete_files" -> "resolve"
    [] pc = "resolve" -> "arguments"
    [] OTHER -> "spawned"

InitLaunch ==
  /\ l_pc = [l \in LaunchIds |-> "idle"]
  /\ l_opts = [l \in LaunchIds |-> [skip_refresh_account |-> FALSE, skip_check_files |-> FALSE]]

\* cmd_launch is invoked: launch runs to its first await
LaunchStart(l) ==
  /\ l_pc[l] = "idle"
  /\ \E opts \in [skip_refresh_account : BOOLEAN, skip_check_files : BOOLEAN] :
       /\ l_opts' = [l_opts EXCEPT ![l] = opts]
       /\ l_pc' = [l_pc EXCEPT ![l] =
                     IF opts.skip_refresh_account THEN AfterAccount(opts) ELSE "refresh"]
  /\ LaunchOnly

\* the await at l_pc returns; after the last one the game thread is spawned
\* and launch returns Ok(())
LaunchStep(l) ==
  /\ l_pc[l] \in LaunchActive
  /\ l_pc' = [l_pc EXCEPT ![l] = AfterLaunchStep(l_pc[l], l_opts[l])]
  /\ UNCHANGED l_opts
  /\ LaunchOnly

\* an unwrap() on an Err: the task of this call panics
LaunchPanics(l) ==
  /\ l_pc[l] \in {"refresh", "resolve"}
  /\ l_pc' = [l_pc EXCEPT ![l] = "panicked"]
  /\ UNCHANGED l_opts
  /\ LaunchOnly

LaunchNext ==
  \/ \E l \in LaunchIds : LaunchStart(l)
  \/ \E l \in LaunchIds : LaunchStep(l)
  \/ \E l \in LaunchIds : LaunchPanics(l)

(***************************************************************************)
(* complete_files: the launch-time completeness check.  The two marker     *)
(* files live in the instance directory; a file there has a content and    *)
(* the time it was written.  Time advances in steps of five days.          *)
(***************************************************************************)
MarkerKinds == {"assets", "libraries"}

ClockStep == 5 * 24 * 60 * 60
Clock == { 1700000000 + k * ClockStep : k \in 0..MaxTicks }

NoMarker == [exists |-> FALSE, content |-> "", written |-> 0]

\* the content complete_files writes with std::fs::write(lock_file, "ok")
MarkerContent == "ok"

\* std::fs::metadata(&lock_file).is_ok()
MarkerFound(m) == m.exists

InitComplete ==
  /\ now \in Clock
  /\ markers \in [MarkerKinds ->
        {NoMarker} \cup { [exists |-> TRUE, content |-> c, written |-> w] :
                             c \in {"ok", "epoch"}, w \in { t \in Clock : t <= now } }]
  /\ cf_pc = "assets"
  /\ skip_age = [k \in MarkerKinds |-> -1]
  /\ verify_runs = [k \in MarkerKinds |-> 0]
  /\ cf_disk \in [MarkerKinds -> {"good", "bad", "missing"}]

\* filter_correct_files on a task with a sha1: TRUE keeps it for download
filter_correct_files(file) == file # "good"

\* download_files on one task: what the file may be when it returns Ok(()).
\* An attempt that gets no response leaves the file, one that gets a body
\* writes it; the loop ends at the first good body or after the last retry.
download_files(file) == {"good", "bad", file}

AfterKind(k) == IF k = "assets" THEN "libraries" ELSE "done"

\* time passes
Tick ==
  /\ now + ClockStep \in Clock
  /\ now' = now + ClockStep
  /\ UNCHANGED <<markers, cf_pc, skip_age, verify_runs, cf_disk>>
  /\ CompleteOnly

\* complete_files, the if of kind k: a marker that is found skips the check
CompleteCheck(k) ==
  /\ cf_pc = k
  /\ IF MarkerFound(markers[k])
     THEN /\ cf_pc' = AfterKind(k)
          /\ skip_age' = [skip_age EXCEPT ![k] = now - markers[k].written]
     ELSE /\ cf_pc' = "verify_" \o k
          /\ UNCHANGED skip_age
  /\ UNCHANGED <<now, markers, verify_runs, cf_disk>>
  /\ CompleteOnly

\* complete_<kind>_files runs and returns, and the marker is written
CompleteVerified(k) ==
  /\ cf_pc = "verify_" \o k
  /\ verify_runs' = [verify_runs EXCEPT ![k] = @ + 1]
  /\ IF filter_correct_files(cf_disk[k])
     THEN \E file \in download_files(cf_disk[k]) : cf_disk' = [cf_disk EXCEPT ![k] = file]
     ELSE UNCHANGED cf_disk
  /\ markers' = [markers EXCEPT ![k] =
                   [exists |-> TRUE, content |-> MarkerContent, written |-> now]]
  /\ cf_pc' = AfterKind(k)
  /\ UNCHANGED <<now, skip_age>>
  /\ CompleteOnly

\* the next launch of the instance calls complete_files again
CompleteAgain ==
  /\ cf_pc = "done"
  /\ cf_pc' = "assets"
  /\ skip_age' = [k \in MarkerKinds |-> -1]
  /\ UNCHANGED <<now, markers, verify_runs, cf_disk>>
  /\ CompleteOnly

CompleteNext ==
  \/ Tick
  \/ \E k \in MarkerKinds : CompleteCheck(k)
  \/ \E k \in MarkerKinds : CompleteVerified(k)
  \/ CompleteAgain

IdleComplete ==
  /\ now = 1700000000
  /\ markers = [k \in MarkerKinds |-> NoMarker]
  /\ cf_pc = "done"
  /\ skip_age = [k \in MarkerKinds |-> -1]
  /\ verify_runs = [k \in MarkerKinds |-> 0]
  /\ cf_disk = [k \in MarkerKinds |-> "good"]

(***************************************************************************)
(* spawn_minecraft_process: the loop that reads the child's stdout.  A     *)
(* line is the sequence of its words; every line the child writes ends     *)
(* with a newline.  The child and the reader thread run concurrently.      *)
(***************************************************************************)
StdoutLines == { <<"Setting", "user">>, <<"LWJGL", "Version", "3">>, <<"lwjgl", "version">> }

RECURSIVE SeqsUpTo(_, _)
SeqsUpTo(S, n) ==
  IF n = 0 THEN { <<>> }
  ELSE SeqsUpTo(S, n - 1) \cup
       { Append(q, x) : q \in { r \in SeqsUpTo(S, n - 1) : Len(r) = n - 1 }, x \in S }

ChildScripts == SeqsUpTo(StdoutLines, MaxLines) \ { <<>> }

WordLower(w) == CASE w = "LWJGL" -> "lwjgl" [] w = "Version" -> "version"
                  [] w = "Setting" -> "setting" [] OTHER -> w

\* str::to_lowercase
to_lowercase(line) == [j \in 1..Len(line) |-> WordLower(line[j])]

\* str::contains
contains(line, pat) ==
  \E j \in 0..(Len(line) - Len(pat)) : SubSeq(line, j + 1, j + Len(pat)) = pat

LogEvent(line) == [event |-> "log", content |-> line]
LaunchSuccess == [event |-> "launch_success", content |-> <<>>]

\* the body of the loop after the try_wait test: buf.split("\n") has one more
\* piece than buf has lines, so lines.len() - 2 is the line read last
EmitFor(b) ==
  IF Len(b) = 0 THEN <<>>
  ELSE LET last == b[Len(b)]
       IN  (IF contains(to_lowercase(last), <<"lwjgl", "version">>)
            THEN <<LaunchSuccess>> ELSE <<>>) \o <<LogEvent(last)>>

InitReader ==
  /\ child_out \in ChildScripts
  /\ child_exited = FALSE
  /\ pipe = <<>>
  /\ buf = <<>>
  /\ r_pc = "read_line"
  /\ events = <<>>
  /\ child_wrote = <<>>

\* the child prints its next line
ChildWrites ==
  /\ ~child_exited
  /\ child_out # <<>>
  /\ pipe' = Append(pipe, Head(child_out))
  /\ child_wrote' = Append(child_wrote, Head(child_out))
  /\ child_out' = Tail(child_out)
  /\ UNCHANGED <<child_exited, buf, r_pc, events>>
  /\ ReaderOnly

\* the child exits once it has printed everything; its end of the pipe closes
ChildExits ==
  /\ ~child_exited
  /\ child_out = <<>>
  /\ child_exited' = TRUE
  /\ UNCHANGED <<child_out, pipe, buf, r_pc, events, child_wrote>>
  /\ ReaderOnly

\* out.read_line(&mut buf) returns: a line is appended to buf, or Ok(0) at
\* end of file; it blocks while the pipe is empty and open
ReadLine ==
  /\ r_pc = "read_line"
  /\ \/ /\ pipe # <<>>
        /\ buf' = Append(buf, Head(pipe))
        /\ pipe' = Tail(pipe)
     \/ /\ pipe = <<>>
        /\ child_exited
        /\ UNCHANGED <<buf, pipe>>
  /\ r_pc' = "try_wait"
  /\ UNCHANGED <<child_out, child_exited, events, child_wrote>>
  /\ ReaderOnly

\* minecraft_process.try_wait(): break when the child has exited, else emit
\* the events of the line read last
TryWait ==
  /\ r_pc = "try_wait"
  /\ IF child_exited
     THEN r_pc' = "wait_with_output" /\ UNCHANGED events
     ELSE r_pc' = "read_line" /\ events' = events \o EmitFor(buf)
  /\ UNCHANGED <<child_out, child_exited, pipe, buf, child_wrote>>
  /\ ReaderOnly

ReaderNext ==
  \/ ChildWrites
  \/ ChildExits
  \/ ReadLine
  \/ TryWait

IdleReader ==
  /\ child_out = <<>>
  /\ child_exited = TRUE
  /\ pipe = <<>>
  /\ buf = <<>>
  /\ r_pc = "wait_with_output"
  /\ events = <<>>
  /\ child_wrote = <<>>

(***************************************************************************)
(* account::microsoft: the store accounts.microsoft.json and the commands  *)
(* on it.  An account is its profile uuid and expires_on; the tokens of a  *)
(* login are told apart by the time they were issued.  The commands are    *)
(* async: a step is what runs between two awaits of microsoft_login.       *)
(***************************************************************************)
Uuids == {"u1", "u2"}
Callers == 1..NCallers

ClockUnit == 2 * 3600
Clocks == { 1700000000 + k * ClockUnit : k \in 0..MaxClock }

\* expires_in of the token response
ExpiresIn == 6 * 3600

AHEAD_inclusive == 3600 * 4 + 1
AHEAD == 3600 * 4

MsMissing == [exists |-> FALSE, accounts |-> <<>>]
MsFile(accounts) == [exists |-> TRUE, accounts |-> accounts]
NoAccount == [uuid |-> "", expires_on |-> 0]

\* microsoft::list_accounts: a missing file is the empty list
ms_list_accounts(f) == IF ~f.exists THEN <<>> ELSE f.accounts

MsMatching(f, uuid) == SelectSeq(ms_list_accounts(f), LAMBDA x : x.uuid = uuid)

\* microsoft::get_account(uuid).is_ok()
ms_has_account(f, uuid) == f.exists /\ MsMatching(f, uuid) # <<>>

\* microsoft::get_account: the first account of that uuid
ms_get_account(f, uuid) == IF ms_has_account(f, uuid) THEN MsMatching(f, uuid)[1] ELSE NoAccount

ms_save_account(f, account) == MsFile(Append(ms_list_accounts(f), account))

ms_delete_account_keeps(f, uuid) == MsFile(ms_list_accounts(f))
ms_delete_account(f, uuid) == MsFile(SelectSeq(ms_list_accounts(f), LAMBDA x : x.uuid # uuid))

\* add_account after microsoft_login has returned account
ms_add_account(f, account) ==
  ms_save_account(IF ms_has_account(f, account.uuid)
                  THEN ms_delete_account(f, account.uuid) ELSE f, account)

\* relogin_account after microsoft_login has returned new_account
ms_relogin_account(f, uuid, new_account) ==
  IF uuid # new_account.uuid
  THEN ms_save_account(ms_delete_account(f, uuid), new_account)
  ELSE MsFile([j \in 1..Len(ms_list_accounts(f)) |->
                 IF ms_list_accounts(f)[j].uuid = new_account.uuid
                 THEN new_account ELSE ms_list_accounts(f)[j]])

\* microsoft_login: the account of profile uuid, issued at time t
microsoft_login(uuid, t) == [uuid |-> uuid, expires_on |-> t + ExpiresIn]

\* check_and_refresh_account: now > account.expires_on - AHEAD
NeedsRefresh(t, account) == t > account.expires_on - AHEAD

IdleCall == [pc |-> "idle", op |-> "", uuid |-> "", snap |-> <<>>, result |-> <<>>,
             ret |-> "", net |-> 0, seen |-> NoAccount, at |-> 0]

\* the stores at the start: u1 was logged in two hours before u2
StoredAccounts == { [uuid |-> "u1", expires_on |-> 1700000000 + 4 * 3600],
                    [uuid |-> "u2", expires_on |-> 1700000000 + 6 * 3600] }

MsStores ==
  {MsMissing} \cup
  { MsFile(q) : q \in { r \in SeqsUpTo(StoredAccounts, 2) :
                          \A i, j \in 1..Len(r) : i # j => r[i].uuid # r[j].uuid } }

\* callers are interchangeable: they make their calls in the order of their numbers
MayCall(p) == ms_call[p].pc = "idle" /\ \A q \in Callers : q < p => ms_call[q].pc # "idle"

InitMicrosoft ==
  /\ ms_file \in MsStores
  /\ clock = 1700000000
  /\ ms_call = [p \in Callers |-> IdleCall]
  /\ ms_deleted = {}

ClockTick ==
  /\ clock + ClockUnit \in Clocks
  /\ clock' = clock + ClockUnit
  /\ UNCHANGED <<ms_file, ms_call, ms_deleted>>
  /\ MicrosoftOnly

\* add_account(code) / relogin_account(uuid, code) up to the await of
\* microsoft_login; the code is that of the profile login_uuid
CallLogin(p) ==
  /\ MayCall(p)
  /\ \E op \in {"add_account", "relogin_account"}, u \in Uuids, login_uuid \in Uuids :
       ms_call' = [ms_call EXCEPT ![p] =
                     [IdleCall EXCEPT !.pc = "login", !.op = op,
                                      !.uuid = IF op = "add_account" THEN login_uuid ELSE u,
                                      !.seen = [uuid |-> login_uuid, expires_on |-> 0],
                                      !.net = 1]]
  /\ UNCHANGED <<ms_file, clock, ms_deleted>>
  /\ MicrosoftOnly

\* microsoft_login of add_account / relogin_account returns Ok: the rest of
\* the command runs to its end
LoginOk(p) ==
  /\ ms_call[p].pc = "login"
  /\ LET account == microsoft_login(ms_call[p].seen.uuid, clock)
     IN  /\ ms_file' = IF ms_call[p].op = "add_account"
                       THEN ms_add_account(ms_file, account)
                       ELSE ms_relogin_account(ms_file, ms_call[p].uuid, account)
         /\ ms_deleted' = (ms_deleted \cup
                            (IF ms_call[p].op = "relogin_account" /\ ms_call[p].uuid # account.uuid
                             THEN {ms_call[p].uuid} ELSE {}))
                          \ (IF ms_call[p].op = "add_account" \/ ms_call[p].uuid # account.uuid
                              THEN {account.uuid} ELSE {})
  /\ ms_call' = [ms_call EXCEPT ![p].pc = "returned", ![p].ret = "Ok"]
  /\ UNCHANGED clock
  /\ MicrosoftOnly

\* a network step of microsoft_login fails: `?` returns the error
LoginErr(p) ==
  /\ ms_call[p].pc \in {"login", "refresh"}
  /\ ms_call' = [ms_call EXCEPT ![p].pc = "returned", ![p].ret = "Network",
                                ![p].result = <<>>, ![p].snap = <<>>]
  /\ UNCHANGED <<ms_file, clock, ms_deleted>>
  /\ MicrosoftOnly

\* cmd_delete_microsoft_account
CallDelete(p) ==
  /\ MayCall(p)
  /\ \E u \in Uuids :
       /\ ms_file' = ms_delete_account(ms_file, u)
       /\ ms_deleted' = ms_deleted \cup {u}
       /\ ms_call' = [ms_call EXCEPT ![p] =
                        [IdleCall EXCEPT !.pc = "returned", !.op = "delete_account",
                                         !.uuid = u, !.ret = "Ok"]]
  /\ UNCHANGED clock
  /\ MicrosoftOnly

\* refresh_account(uuid) from its start to the first await: with an empty
\* list the loop does not run and the function goes through to its end
StartRefresh(c, f) ==
  IF ms_list_accounts(f) = <<>>
  THEN [c EXCEPT !.pc = "returned", !.ret = "AccountNotfound", !.snap = <<>>]
  ELSE [c EXCEPT !.pc = "refresh", !.snap = ms_list_accounts(f), !.net = @ + 1]

CallRefresh(p) ==
  /\ MayCall(p)
  /\ \E u \in Uuids :
       ms_call' = [ms_call EXCEPT ![p] =
                     StartRefresh([IdleCall EXCEPT !.op = "refresh_account", !.uuid = u], ms_file)]
  /\ ms_file' = IF ms_list_accounts(ms_file) = <<>> THEN MsFile(<<>>) ELSE ms_file
  /\ UNCHANGED <<clock, ms_deleted>>
  /\ MicrosoftOnly

\* check_and_refresh_account(uuid) up to its first await or its return
CallCheck(p) ==
  /\ MayCall(p)
  /\ \E u \in Uuids :
       LET c == [IdleCall EXCEPT !.op = "check_and_refresh_account", !.uuid = u,
                                 !.seen = ms_get_account(ms_file, u), !.at = clock]
       IN  ms_call' = [ms_call EXCEPT ![p] =
             IF ~ms_has_account(ms_file, u)
             THEN [c EXCEPT !.pc = "returned", !.ret = "AccountNotfound"]
             ELSE IF NeedsRefresh(clock, ms_get_account(ms_file, u))
                  THEN StartRefresh(c, ms_file)
                  ELSE [c EXCEPT !.pc = "returned", !.ret = "Ok"]]
  /\ UNCHANGED <<ms_file, clock, ms_deleted>>
  /\ MicrosoftOnly

\* refresh_account: the microsoft_login of the next account of the list read
\* at the start returns Ok; after the last one the result is written
RefreshLoginOk(p) ==
  /\ ms_call[p].pc = "refresh"
  /\ LET c == ms_call[p]
         account == microsoft_login(c.snap[Len(c.result) + 1].uuid, clock)
         result == Append(c.result, account)
     IN  IF Len(result) = Len(c.snap)
         THEN /\ ms_file' = MsFile(result)
              /\ ms_call' = [ms_call EXCEPT ![p].result = <<>>, ![p].snap = <<>>,
                                            ![p].pc = "returned", ![p].ret = "Ok"]
         ELSE /\ ms_call' = [ms_call EXCEPT ![p].result = result, ![p].net = @ + 1]
              /\ UNCHANGED ms_file
  /\ UNCHANGED <<clock, ms_deleted>>
  /\ MicrosoftOnly

MicrosoftNext ==
  \/ ClockTick
  \/ \E p \in Callers : CallLogin(p)
  \/ \E p \in Callers : LoginOk(p)
  \/ \E p \in Callers : LoginErr(p)
  \/ \E p \in Callers : CallDelete(p)
  \/ \E p \in Callers : CallRefresh(p)
  \/ \E p \in Callers : CallCheck(p)
  \/ \E p \in Callers : RefreshLoginOk(p)

IdleMicrosoft ==
  /\ ms_file = MsMissing
  /\ clock = 1700000000
  /\ ms_call = [p \in Callers |-> IdleCall]
  /\ ms_deleted = {}

(***************************************************************************)
(* The three account stores under commands made one after the other: a     *)
(* command is a whole handler, its network calls included.  The system     *)
(* clock has advanced between two commands, so the uuid or key a command   *)
(* derives from it is new.                                                 *)
(***************************************************************************)
StoreKinds == {"microsoft", "offline", "authlib"}

\* offline::list_accounts reads the file without testing that it exists
off_list_ok(f) == f.exists

\* offline::add_account(name) at clock t
off_add_account(f, name, t) ==
  IF ~off_list_ok(f) THEN f
  ELSE [exists |-> TRUE, accounts |-> Append(f.accounts, [name |-> name, uuid |-> t])]

\* offline::delete_account(uuid)
off_delete_account(f, uuid) ==
  IF ~off_list_ok(f) THEN f
  ELSE [exists |-> TRUE, accounts |-> SelectSeq(f.accounts, LAMBDA x : x.uuid # uuid)]

\* the accounts cmd_add_authlib_account is called with
AlAccounts ==
  { [api_root |-> "r1", account_identifier |-> "alice", profile_uuid |-> "p1", access_token |-> "t0"],
    [api_root |-> "r1", account_identifier |-> "alice", profile_uuid |-> "p2", access_token |-> "t0"],
    [api_root |-> "r1", account_identifier |-> "bob", profile_uuid |-> "p1", access_token |-> "t0"],
    [api_root |-> "r2", account_identifier |-> "alice", profile_uuid |-> "p1", access_token |-> "t0"] }

AlMissing == [exists |-> FALSE, accounts |-> {}]

\* authlib_injector::list_accounts: the map as its set of (key, account) entries
al_list_accounts(f) == IF ~f.exists THEN {} ELSE f.accounts

al_save_accounts(entries) == [exists |-> TRUE, accounts |-> entries]

\* HashMap::insert
al_insert(entries, key, account) ==
  { e \in entries : e.key # key } \cup { [key |-> key, account |-> account] }

\* the `same` of the filter closure of add_account
al_same(x, account) ==
  /\ x.api_root = account.api_root
  /\ x.account_identifier = account.account_identifier
  /\ x.profile_uuid = account.profile_uuid

al_add_account_no_dedupe(f, account, key) ==
  al_save_accounts(al_insert(al_list_accounts(f), key, account))

\* authlib_injector::add_account at clock key
al_add_account(f, account, key) ==
  al_save_accounts(al_insert({ e \in al_list_accounts(f) : ~al_same(e.account, account) },
                             key, account))

\* authlib_injector::delete_account
al_delete_account(f, key) ==
  al_save_accounts({ e \in al_list_accounts(f) : e.key # key })

al_has_key(f, key) == \E e \in al_list_accounts(f) : e.key = key
al_get(f, key) == (CHOOSE e \in al_list_accounts(f) : e.key = key).account

\* the LoginResponse values of the server
NoProfile == "none"
LoginResponses ==
  [selected_profile : {NoProfile, "p1", "p2"},
   available_profiles : { <<>>, <<"p1">>, <<"p2">>, <<"p2", "p1">> }]

\* relogin_account: TRUE when the function reaches save_accounts
al_relogin_ok(selected_account, login_response) ==
  IF login_response.selected_profile # NoProfile
  THEN login_response.selected_profile = selected_account.profile_uuid
  ELSE SelectSeq(login_response.available_profiles,
                 LAMBDA x : x = selected_account.profile_uuid) # <<>>

\* relogin_account on a stored key
al_relogin_account(f, key, login_response) ==
  IF al_relogin_ok(al_get(f, key), login_response)
  THEN al_save_accounts(al_insert(al_list_accounts(f), key,
                                  [al_get(f, key) EXCEPT !.access_token = "t1"]))
  ELSE f

NoRt == [phase |-> "none", fresh |-> FALSE]
NoResponse == [selected_profile |-> NoProfile, available_profiles |-> <<>>]
NoAlAccount == [api_root |-> "", account_identifier |-> "", profile_uuid |-> "", access_token |-> ""]
Last(op, ret) == [op |-> op, ret |-> ret, account |-> NoAlAccount, response |-> NoResponse,
                  uuid |-> "", got |-> "", failed_at |-> 0]

InitStores ==
  /\ st_kind \in StoreKinds
  /\ store \in IF st_kind = "microsoft" THEN {MsMissing}
               ELSE IF st_kind = "offline"
                    THEN {[exists |-> FALSE, accounts |-> <<>>], [exists |-> TRUE, accounts |-> <<>>]}
                    ELSE {AlMissing}
  /\ st_clock = 0
  /\ st_prior = store
  /\ st_last = Last("", "")
  /\ rt = NoRt

\* the command now made reads the clock at st_clock + 1
Commanding(kind) == st_kind = kind /\ st_clock < MaxOps /\ st_clock' = st_clock + 1
                    /\ st_prior' = store /\ UNCHANGED st_kind /\ StoresOnly

\* the store as list_accounts gives it
StoreView(kind, f) ==
  CASE kind = "microsoft" -> [ok |-> TRUE, accounts |-> ms_list_accounts(f)]
    [] kind = "offline" -> [ok |-> off_list_ok(f), accounts |-> f.accounts]
    [] OTHER -> [ok |-> TRUE, accounts |-> al_list_accounts(f)]

Added(id, fresh) == [phase |-> "added", fresh |-> fresh, id |-> id,
                     prior |-> StoreView(st_kind, store)]

\* microsoft::add_account(code) with every network step succeeding
MsAdd ==
  /\ Commanding("microsoft")
  /\ \E u \in Uuids :
       /\ store' = ms_add_account(store, microsoft_login(u, 1700000000 + st_clock'))
       /\ rt' = Added(u, ~ms_has_account(store, u))
  /\ st_last' = Last("add_account", "Ok")

\* microsoft::delete_account(uuid)
MsDelete ==
  /\ Commanding("microsoft")
  /\ \E u \in Uuids :
       /\ store' = ms_delete_account(store, u)
       /\ rt' = IF rt.phase = "added" /\ rt.id = u THEN [rt EXCEPT !.phase = "deleted"] ELSE NoRt
  /\ st_last' = Last("delete_account", "Ok")

\* microsoft::relogin_account(uuid, code) with every network step succeeding;
\* the code is that of the profile login_uuid
MsRelogin ==
  /\ Commanding("microsoft")
  /\ \E u \in Uuids, login_uuid \in Uuids :
       /\ store' = ms_relogin_account(store, u, microsoft_login(login_uuid, 1700000000 + st_clock'))
       /\ st_last' = [Last("relogin_account", "Ok") EXCEPT !.uuid = u]
  /\ rt' = NoRt

RefreshOps == {"refresh_account", "refresh_all_accounts"}

ms_refresh_writes_partial(f, t, fail_at) ==
  LET accounts == ms_list_accounts(f)
      n == IF fail_at \in 1..Len(accounts) THEN fail_at - 1 ELSE Len(accounts)
      result == [j \in 1..n |-> microsoft_login(accounts[j].uuid, t)]
  IN  [file |-> MsFile(result), ret |-> IF n < Len(accounts) THEN "Network" ELSE "Ok",
       result |-> result]

\* the body refresh_account and refresh_all_accounts share, at clock t:
\* fail_at is the account whose microsoft_login fails, 0 when none does
ms_refresh(f, t, fail_at) ==
  LET accounts == ms_list_accounts(f)
      result == [j \in 1..Len(accounts) |-> microsoft_login(accounts[j].uuid, t)]
  IN  IF fail_at \in 1..Len(accounts)
      THEN [file |-> f, ret |-> "Network", result |-> <<>>]
      ELSE [file |-> MsFile(result), ret |-> "Ok", result |-> result]

\* microsoft::refresh_account(uuid) / refresh_all_accounts()
MsRefresh ==
  /\ Commanding("microsoft")
  /\ \E op \in RefreshOps, u \in Uuids, fail_at \in 0..Len(ms_list_accounts(store)) :
       LET r == ms_refresh(store, 1700000000 + st_clock', fail_at)
           first == op = "refresh_account" /\ r.ret = "Ok"
           ret == IF first /\ r.result = <<>> THEN "AccountNotfound" ELSE r.ret
       IN  /\ store' = r.file
           /\ st_last' = [Last(op, ret) EXCEPT
                            !.uuid = IF op = "refresh_account" THEN u ELSE "",
                            !.got = IF first /\ r.result # <<>> THEN r.result[1].uuid ELSE "",
                            !.failed_at = fail_at]
  /\ rt' = NoRt

\* offline::add_account(name)
OffAdd ==
  /\ Commanding("offline")
  /\ \E name \in {"Steve", "Alex"} : store' = off_add_account(store, name, st_clock')
  /\ rt' = IF off_list_ok(store) THEN Added(st_clock', TRUE) ELSE NoRt
  /\ st_last' = Last("add_account", IF off_list_ok(store) THEN "Ok" ELSE "Io")

\* offline::delete_account(uuid)
OffDelete ==
  /\ Commanding("offline")
  /\ \E uuid \in 1..MaxOps :
       /\ store' = off_delete_account(store, uuid)
       /\ rt' = IF rt.phase = "added" /\ rt.id = uuid /\ off_list_ok(store)
                THEN [rt EXCEPT !.phase = "deleted"] ELSE NoRt
  /\ st_last' = Last("delete_account", IF off_list_ok(store) THEN "Ok" ELSE "Io")

\* authlib_injector::add_account(account)
AlAdd ==
  /\ Commanding("authlib")
  /\ \E account \in AlAccounts :
       /\ store' = al_add_account(store, account, st_clock')
       /\ rt' = Added(st_clock', \A e \in al_list_accounts(store) : ~al_same(e.account, account))
       /\ st_last' = [Last("add_account", "Ok") EXCEPT !.account = account]

\* authlib_injector::delete_account(account_key), invalidate_token succeeding
AlDelete ==
  /\ Commanding("authlib")
  /\ \E key \in 1..MaxOps :
       /\ store' = al_delete_account(store, key)
       /\ rt' = IF rt.phase = "added" /\ rt.id = key THEN [rt EXCEPT !.phase = "deleted"] ELSE NoRt
  /\ st_last' = Last("delete_account", "Ok")

\* authlib_injector::relogin_account(account_key, password) on a stored key
AlRelogin ==
  /\ Commanding("authlib")
  /\ \E key \in 1..MaxOps, login_response \in LoginResponses :
       /\ al_has_key(store, key)
       /\ store' = al_relogin_account(store, key, login_response)
       /\ st_last' = [op |-> "relogin_account",
                      ret |-> IF al_relogin_ok(al_get(store, key), login_response)
                              THEN "Ok" ELSE "anyhow: The profile has been removed",
                      account |-> al_get(store, key),
                      response |-> login_response]
  /\ rt' = NoRt

StoresNext ==
  \/ MsAdd
  \/ MsDelete
  \/ MsRelogin
  \/ MsRefresh
  \/ OffAdd
  \/ OffDelete
  \/ AlAdd
  \/ AlDelete
  \/ AlRelogin

IdleStores ==
  /\ st_kind = "microsoft"
  /\ store = MsMissing
  /\ st_clock = MaxOps
  /\ st_prior = MsMissing
  /\ st_last = Last("", "")
  /\ rt = NoRt

(***************************************************************************)
(* cmd_get_*_version_list: the five commands have the same body, each on   *)
(* its own cache field of PluginState; the Minecraft one takes no          *)
(* mcversion.  A payload is what the remote served for an mcversion at the *)
(* time of the fetch.                                                      *)
(***************************************************************************)
ListKinds == {"minecraft", "fabric"}
McVersions == {"1.20.1", "1.21"}

Hour == 60 * 60
Hours == { 1700000000 + k * Hour : k \in 0..MaxHours }

NoCache == [some |-> FALSE, ts |-> 0, payload |-> [mcversion |-> "", fetched |-> 0]]
SomeCache(ts, payload) == [some |-> TRUE, ts |-> ts, payload |-> payload]

CacheTtl == 2 * 60 * 60

\* the condition under which the command returns cache.1
ReturnsCache(t, cache) == cache.some /\ t - cache.ts > CacheTtl

NoVlCall == [pc |-> "returned", kind |-> "minecraft", mcversion |-> "", now |-> 0,
             seen |-> NoCache, hit |-> FALSE, ret |-> "", payload |-> NoCache.payload]

InitCache ==
  /\ vl_cache = [k \in ListKinds |-> NoCache]
  /\ vl_now = 1700000000
  /\ vl_call = NoVlCall

VlTick ==
  /\ vl_now + Hour \in Hours
  /\ vl_now' = vl_now + Hour
  /\ UNCHANGED <<vl_cache, vl_call>>
  /\ CacheOnly

\* a version-list command up to its return of the cache or the await of the fetch
VlCall ==
  /\ vl_call.pc = "returned"
  /\ \E k \in ListKinds, v \in McVersions :
       LET c == [NoVlCall EXCEPT !.kind = k, !.mcversion = IF k = "minecraft" THEN "" ELSE v,
                                 !.now = vl_now, !.seen = vl_cache[k]]
       IN  vl_call' = IF ReturnsCache(vl_now, vl_cache[k])
                      THEN [c EXCEPT !.hit = TRUE, !.ret = "Ok", !.payload = vl_cache[k].payload]
                      ELSE [c EXCEPT !.pc = "fetch"]
  /\ UNCHANGED <<vl_cache, vl_now>>
  /\ CacheOnly

\* the fetch returns Ok: (now, result) becomes the cache and result is returned
VlFetchOk ==
  /\ vl_call.pc = "fetch"
  /\ LET result == [mcversion |-> vl_call.mcversion, fetched |-> vl_now]
     IN  /\ vl_cache' = [vl_cache EXCEPT ![vl_call.kind] = SomeCache(vl_call.now, result)]
         /\ vl_call' = [vl_call EXCEPT !.pc = "returned", !.ret = "Ok", !.payload = result]
  /\ UNCHANGED vl_now
  /\ CacheOnly

\* the fetch fails: `?` returns the error
VlFetchErr ==
  /\ vl_call.pc = "fetch"
  /\ vl_call' = [vl_call EXCEPT !.pc = "returned", !.ret = "Network"]
  /\ UNCHANGED <<vl_cache, vl_now>>
  /\ CacheOnly

CacheNext ==
  \/ VlTick
  \/ VlCall
  \/ VlFetchOk
  \/ VlFetchErr

IdleCache ==
  /\ vl_cache = [k \in ListKinds |-> NoCache]
  /\ vl_now = 1700000000 + MaxHours * Hour
  /\ vl_call = [NoVlCall EXCEPT !.pc = "off"]

(***************************************************************************)
(* version::checks: check_allowed, check_os, check_features.  A rule is    *)
(* its action ("" when the JSON has no string there), its os object and    *)
(* its features object as the sequence in which the map iterates; a key    *)
(* that is absent from the os object is "".                                *)
(***************************************************************************)
Platforms == { [os_family |-> "linux", os_version |-> "6.1", arch |-> "x64"],
               [os_family |-> "windows", os_version |-> "10.0", arch |-> "x64"] }

NoOs == [object |-> FALSE, name |-> "", version |-> "", arch |-> ""]
OsObjects == { NoOs,
               [object |-> TRUE, name |-> "linux", version |-> "", arch |-> ""],
               [object |-> TRUE, name |-> "windows", version |-> "^10\\.", arch |-> "x64"] }

Feature(name, value) == [name |-> name, value |-> value]
NoFeatures == [object |-> FALSE, entries |-> <<>>]
FeatureObjects ==
  { NoFeatures,
    [object |-> TRUE, entries |-> <<Feature("is_demo_user", TRUE)>>],
    [object |-> TRUE, entries |-> <<Feature("has_custom_resolution", TRUE),
                                    Feature("is_demo_user", TRUE)>>],
    [object |-> TRUE, entries |-> <<Feature("is_demo_user", FALSE)>>] }

Rules == [action : {"allow", "disallow"}, os : OsObjects, features : FeatureObjects]
           \cup { [action |-> "", os |-> NoOs, features |-> NoFeatures] }

EnabledFeatures == { <<>>, <<"is_demo_user">>, <<"has_custom_resolution">>,
                     <<"is_demo_user", "has_custom_resolution">>,
                     <<"has_custom_resolution", "is_demo_user">> }

\* Regex::is_match of the version patterns in use
RegexIsMatch(pattern, text) == pattern = "^10\\." /\ text = "10.0"

check_os(rule, platform) ==
  IF rule.os.object
  THEN /\ (rule.os.name # "" => platform.os_family = rule.os.name)
       /\ (rule.os.version # "" => RegexIsMatch(rule.os.version, platform.os_version))
       /\ (rule.os.arch # "" => platform.arch = rule.os.arch)
  ELSE TRUE

\* Iterator::any on what is left of enabled_features_iter: the index of the
\* first element equal to name, 0 when there is none
AnyAt(left, name) ==
  IF \E j \in 1..Len(left) : left[j] = name
  THEN CHOOSE j \in 1..Len(left) : left[j] = name /\ \A i \in 1..(j - 1) : left[i] # name
  ELSE 0

\* the filter of check_features: entries that pass, enabled_features_iter
\* being one iterator for all the entries
RECURSIVE FilterCount(_, _)
FilterCount(entries, left) ==
  IF entries = <<>> THEN 0
  ELSE LET at == AnyAt(left, Head(entries).name)
           rest == IF at = 0 THEN <<>> ELSE SubSeq(left, at + 1, Len(left))
       IN  (IF at # 0 /\ Head(entries).value THEN 1 ELSE 0) + FilterCount(Tail(entries), rest)

check_features(rule, enabled_features) ==
  IF rule.features.object
  THEN FilterCount(rule.features.entries, enabled_features) = Len(rule.features.entries)
  ELSE TRUE

\* the body of the for loop of check_allowed
LoopBody(allow, rule, enabled_features, platform) ==
  IF rule.action = "" THEN allow
  ELSE IF check_os(rule, platform) /\ check_features(rule, enabled_features)
       THEN rule.action = "allow" ELSE allow

InitRules ==
  /\ rl_platform \in Platforms
  /\ rl_rules \in SeqsUpTo(Rules, MaxRules)
  /\ rl_enabled \in EnabledFeatures
  /\ rl_idx = 0
  /\ rl_allow = FALSE
  /\ rl_ret = "none"

\* check_allowed with an empty list
ReturnEmpty ==
  /\ rl_ret = "none"
  /\ rl_rules = <<>>
  /\ rl_ret' = "true"
  /\ UNCHANGED <<rl_platform, rl_rules, rl_enabled, rl_idx, rl_allow>>
  /\ RulesOnly

\* one iteration of the for loop
RuleStep ==
  /\ rl_ret = "none"
  /\ rl_idx < Len(rl_rules)
  /\ rl_idx' = rl_idx + 1
  /\ rl_allow' = LoopBody(rl_allow, rl_rules[rl_idx + 1], rl_enabled, rl_platform)
  /\ UNCHANGED <<rl_platform, rl_rules, rl_enabled, rl_ret>>
  /\ RulesOnly

\* the loop is over: allow is returned
ReturnAllow ==
  /\ rl_ret = "none"
  /\ rl_rules # <<>>
  /\ rl_idx = Len(rl_rules)
  /\ rl_ret' = IF rl_allow THEN "true" ELSE "false"
  /\ UNCHANGED <<rl_platform, rl_rules, rl_enabled, rl_idx, rl_allow>>
  /\ RulesOnly

RulesNext ==
  \/ ReturnEmpty
  \/ RuleStep
  \/ ReturnAllow

IdleRules ==
  /\ rl_platform = [os_family |-> "linux", os_version |-> "6.1", arch |-> "x64"]
  /\ rl_rules = <<>>
  /\ rl_enabled = <<>>
  /\ rl_idx = 0
  /\ rl_allow = FALSE
  /\ rl_ret = "true"

(***************************************************************************)
(* version: Version::resolve from the point where the chain of version     *)
(* JSONs has been read, and ResolvedVersion::join_arguments.  A level of   *)
(* the chain is a Version: its minimumLauncherVersion, arguments,          *)
(* mainClass, assetIndex, downloads, javaVersion and libraries; versions   *)
(* holds the version resolved first and its ancestors after it, the root   *)
(* last.  An Option<String> is "" when it is None; a library is its name   *)
(* and its rules.                                                          *)
(***************************************************************************)
DEFAULT_GAME_ARGS ==
  << "--username", "${auth_player_name}", "--version", "${version_name}",
     "--gameDir", "${game_directory}", "--assetsDir", "${assets_root}",
     "--assetIndex", "${asset_index}", "--uuid", "${auth_uuid}",
     "--accessToken", "${auth_access_token}", "--clientId", "${clientid}",
     "--xuid", "${auth_xuid}", "--userType", "${user_type}",
     "--versionType", "${version_type}", "--width", "${resolution_width}",
     "--height", "${resolution_height}" >>

DEFAULT_JVM_ARGS ==
  << "\"-Djava.library.path=${natives_directory}\"",
     "\"-Dminecraft.launcher.brand=${launcher_name}\"",
     "\"-Dminecraft.launcher.version=${launcher_version}\"",
     "\"-Dfile.encoding=UTF-8\"",
     "\"-Dsun.stdout.encoding=UTF-8\"",
     "\"-Dsun.stderr.encoding=UTF-8\"",
     "\"-Djava.rmi.server.useCodebaseOnly=true\"",
     "\"-XX:MaxInlineSize=420\"",
     "\"-XX:-UseAdaptiveSizePolicy\"",
     "\"-XX:-OmitStackTraceInFastThrow\"",
     "\"-XX:-DontCompileHugeMethods\"",
     "\"-Dcom.sun.jndi.rmi.object.trustURLCodebase=false\"",
     "\"-Dcom.sun.jndi.cosnaming.object.trustURLCodebase=false\"",
     "\"-Dlog4j2.formatMsgNoLookups=true\"",
     "-cp", "${classpath}" >>

\* check_allowed as a whole: the loop body folded over the rules
RECURSIVE AllowAfter(_, _, _, _)
AllowAfter(rules, n, enabled_features, platform) ==
  IF n = 0 THEN FALSE
  ELSE LoopBody(AllowAfter(rules, n - 1, enabled_features, platform), rules[n],
                enabled_features, platform)

check_allowed(rules, enabled_features, platform) ==
  IF rules = <<>> THEN TRUE ELSE AllowAfter(rules, Len(rules), enabled_features, platform)

\* an element of an arguments list: a string, or an object {rules, value}
StringArg(x) == [string |-> TRUE, rules |-> <<>>, value |-> <<x>>]
RuleArg(rules, value) == [string |-> FALSE, rules |-> rules, value |-> value]

resolve_argument(argument, enabled_features, platform) ==
  IF argument.string THEN argument.value
  ELSE IF check_allowed(argument.rules, enabled_features, platform)
       THEN argument.value ELSE <<>>

RECURSIVE ResolveAll(_, _, _)
ResolveAll(args, enabled_features, platform) ==
  IF args = <<>> THEN <<>>
  ELSE resolve_argument(Head(args), enabled_features, platform)
         \o ResolveAll(Tail(args), enabled_features, platform)

\* Arguments::to_resolved
to_resolved(arguments, enabled_features, platform) ==
  [game |-> ResolveAll(arguments.game, enabled_features, platform),
   jvm |-> ResolveAll(arguments.jvm, enabled_features, platform)]

NoArguments == [some |-> FALSE, game |-> <<>>, jvm |-> <<>>]
ArgumentsOptions ==
  { NoArguments,
    [some |-> TRUE, game |-> <<StringArg("--server")>>, jvm |-> <<StringArg("-Xss1M")>>],
    [some |-> TRUE,
     game |-> << RuleArg(<<[action |-> "allow", os |-> NoOs,
                           features |-> [object |-> TRUE,
                                         entries |-> <<Feature("is_demo_user", TRUE)>>]]>>,
                         <<"--demo">>) >>,
     jvm |-> << RuleArg(<<[action |-> "allow",
                          os |-> [object |-> TRUE, name |-> "linux", version |-> "", arch |-> ""],
                          features |-> NoFeatures]>>,
                        <<"-Dos.name=linux">>) >>] }

\* Option<i32>
NoneI32 == [some |-> FALSE, value |-> 0]
SomeI32(v) == [some |-> TRUE, value |-> v]
unwrap_or(opt, default) == IF opt.some THEN opt.value ELSE default

Max(a, b) == IF a >= b THEN a ELSE b

LegacyBelow == 21

\* the fields of a version JSON besides minimumLauncherVersion and arguments
VanillaBody ==
  [main_class |-> "net.minecraft.client.main.Main", asset_index |-> "17",
   downloads |-> [some |-> TRUE, keys |-> {"client", "server"}],
   java_version |-> "java-runtime-gamma",
   libraries |-> [some |-> TRUE,
                  list |-> << [name |-> "brigadier", rules |-> <<>>],
                              [name |-> "lwjgl-linux",
                               rules |-> <<[action |-> "allow",
                                            os |-> [object |-> TRUE, name |-> "linux",
                                                    version |-> "", arch |-> ""],
                                            features |-> NoFeatures]>>] >>]]

LoaderBody ==
  [main_class |-> "net.fabricmc.loader.impl.launch.knot.KnotClient", asset_index |-> "",
   downloads |-> [some |-> FALSE, keys |-> {}], java_version |-> "",
   libraries |-> [some |-> TRUE, list |-> << [name |-> "fabric-loader", rules |-> <<>>] >>]]

ServerOnlyBody ==
  [main_class |-> "net.minecraft.server.Main", asset_index |-> "17",
   downloads |-> [some |-> TRUE, keys |-> {"server"}], java_version |-> "",
   libraries |-> [some |-> TRUE, list |-> << [name |-> "brigadier", rules |-> <<>>] >>]]

BareBody ==
  [main_class |-> "", asset_index |-> "", downloads |-> [some |-> FALSE, keys |-> {}],
   java_version |-> "", libraries |-> [some |-> FALSE, list |-> <<>>]]

Level(minimum_launcher_version, arguments, body) ==
  [minimum_launcher_version |-> minimum_launcher_version, arguments |-> arguments,
   main_class |-> body.main_class, asset_index |-> body.asset_index,
   downloads |-> body.downloads, java_version |-> body.java_version,
   libraries |-> body.libraries]

VersionLevels ==
  { Level(m, a, VanillaBody) : m \in {NoneI32, SomeI32(18), SomeI32(21)}, a \in ArgumentsOptions }
    \cup { Level(m, NoArguments, b) : m \in {NoneI32, SomeI32(21)},
                                     b \in {LoaderBody, ServerOnlyBody, BareBody} }

Chains == SeqsUpTo(VersionLevels, MaxChain) \ { <<>> }

NoResolvedArguments == [game |-> <<>>, jvm |-> <<>>]

\* ResolvedVersion::join_arguments
join_arguments(minimum_launcher_version, self_arguments, arguments, enabled_features, platform) ==
  IF minimum_launcher_version < LegacyBelow
  THEN [game |-> DEFAULT_GAME_ARGS, jvm |-> DEFAULT_JVM_ARGS]
  ELSE IF arguments.some
       THEN [game |-> self_arguments.game \o to_resolved(arguments, enabled_features, platform).game,
             jvm |-> self_arguments.jvm \o to_resolved(arguments, enabled_features, platform).jvm]
       ELSE self_arguments

\* ResolvedVersion::join_minimum_launcher_version
join_minimum_launcher_version(self_version, version) == Max(unwrap_or(version, 0), self_version)

\* ResolvedVersion::default()
DefaultResolved ==
  [main_class |-> "", asset_index |-> "", downloads |-> {}, java_version |-> "jre-legacy",
   libraries |-> <<>>]

\* join_main_class, join_java_version, join_asset_index, join_downloads
join_fields(self, version) ==
  [self EXCEPT !.main_class = IF version.main_class # "" THEN version.main_class ELSE @,
               !.java_version = IF version.java_version # "" THEN version.java_version ELSE @,
               !.asset_index = IF version.asset_index # "" THEN version.asset_index ELSE @,
               !.downloads = IF version.downloads.some THEN @ \cup version.downloads.keys ELSE @]

\* Libraries::join: self.0.splice(0..0, libraries)
Libraries_join(self, libraries) == libraries \o self

\* Libraries::to_resolved: a library whose rules disallow it is skipped
RECURSIVE Libraries_to_resolved(_, _)
Libraries_to_resolved(self, platform) ==
  IF self = <<>> THEN <<>>
  ELSE (IF Head(self).rules # <<>> /\ ~check_allowed(Head(self).rules, <<>>, platform)
        THEN <<>> ELSE <<Head(self).name>>)
         \o Libraries_to_resolved(Tail(self), platform)

\* the test resolve makes before it returns Ok
BadVersionJson(resolved) ==
  \/ resolved.main_class = ""
  \/ resolved.asset_index = ""
  \/ resolved.downloads = {}
  \/ resolved.libraries = <<>>

InitResolve ==
  /\ rv_chain \in Chains
  /\ rv_versions = rv_chain
  /\ rv_enabled \in { <<>>, <<"is_demo_user">> }
  /\ rv_platform \in Platforms
  /\ rv_minimum_launcher_version = 0
  /\ rv_arguments = NoResolvedArguments
  /\ rv_resolved = DefaultResolved
  /\ rv_libraries_raw = <<>>
  /\ rv_ret = "none"

\* one iteration of `while let Some(version) = versions.pop()`
JoinVersion ==
  /\ rv_ret = "none"
  /\ rv_versions # <<>>
  /\ LET version == rv_versions[Len(rv_versions)]
         joined == join_minimum_launcher_version(rv_minimum_launcher_version,
                                                 version.minimum_launcher_version)
     IN  /\ rv_minimum_launcher_version' = joined
         /\ rv_arguments' = join_arguments(joined, rv_arguments, version.arguments,
                                           rv_enabled, rv_platform)
         /\ rv_resolved' = join_fields(rv_resolved, version)
         /\ rv_libraries_raw' = IF version.libraries.some
                                THEN Libraries_join(rv_libraries_raw, version.libraries.list)
                                ELSE rv_libraries_raw
         /\ rv_versions' = SubSeq(rv_versions, 1, Len(rv_versions) - 1)
  /\ UNCHANGED <<rv_chain, rv_enabled, rv_platform, rv_ret>>
  /\ ResolveOnly

\* the loop is over: the libraries are resolved and resolve returns
ResolveReturns ==
  /\ rv_ret = "none"
  /\ rv_versions = <<>>
  /\ LET resolved == [rv_resolved EXCEPT
                        !.libraries = Libraries_to_resolved(rv_libraries_raw, rv_platform)]
     IN  /\ rv_resolved' = resolved
         /\ rv_ret' = IF BadVersionJson(resolved) THEN "Bad Version JSON" ELSE "Ok"
  /\ UNCHANGED <<rv_chain, rv_versions, rv_enabled, rv_platform,
                 rv_minimum_launcher_version, rv_arguments, rv_libraries_raw>>
  /\ ResolveOnly

ResolveNext ==
  \/ JoinVersion
  \/ ResolveReturns

IdleResolve ==
  /\ rv_chain = <<>>
  /\ rv_versions = <<>>
  /\ rv_enabled = <<>>
  /\ rv_platform = [os_family |-> "linux", os_version |-> "6.1", arch |-> "x64"]
  /\ rv_minimum_launcher_version = 0
  /\ rv_arguments = NoResolvedArguments
  /\ rv_resolved = DefaultResolved
  /\ rv_libraries_raw = <<>>
  /\ rv_ret = "Ok"

(***************************************************************************)
(* download: calculate_chunks_length, one iteration of its for loop per    *)
(* step.  The length is the size_bytes of a task, in bytes; lengths sit on *)
(* and next to every whole number of MB up to MaxMB.                       *)
(***************************************************************************)
MB == 1000 * 1000

Lengths == {1, 2} \cup { k * MB + d : k \in 1..MaxMB, d \in {-1, 0, 1} }

\* the chunk_count expression
ChunkCount(length) ==
  IF length < 30 * 1000 * 1000 THEN (length \div (2 * 1000 * 1000)) + 1
  ELSE IF length < 100 THEN (length \div (4 * 1000 * 1000)) + 1
  ELSE (length \div (10 * 1000 * 1000)) + 1

ChunkAt_every_chunk_alike(i, count, size, length) == <<i * size, (i + 1) * size - 1>>

\* the pair pushed for index i
ChunkAt(i, count, size, length) ==
  IF i = count - 1 THEN <<i * size, length - 1>>
  ELSE <<i * size, (i + 1) * size - 1>>

InitChunks ==
  /\ ck_length \in Lengths
  /\ ck_pc = "start"
  /\ chunk_count = 0
  /\ chunk_size = 0
  /\ ck_i = 0
  /\ chunks = <<>>

\* length < 4 MB: the early return
ChunksSingle ==
  /\ ck_pc = "start"
  /\ ck_length < 4 * 1000 * 1000
  /\ chunks' = << <<0, ck_length - 1>> >>
  /\ ck_pc' = "done"
  /\ UNCHANGED <<ck_length, chunk_count, chunk_size, ck_i>>
  /\ ChunksOnly

ChunksCount ==
  /\ ck_pc = "start"
  /\ ~(ck_length < 4 * 1000 * 1000)
  /\ chunk_count' = ChunkCount(ck_length)
  /\ chunk_size' = ck_length \div ChunkCount(ck_length)
  /\ ck_pc' = "loop"
  /\ UNCHANGED <<ck_length, ck_i, chunks>>
  /\ ChunksOnly

ChunksPush ==
  /\ ck_pc = "loop"
  /\ ck_i < chunk_count
  /\ chunks' = Append(chunks, ChunkAt(ck_i, chunk_count, chunk_size, ck_length))
  /\ ck_i' = ck_i + 1
  /\ UNCHANGED <<ck_length, ck_pc, chunk_count, chunk_size>>
  /\ ChunksOnly

ChunksReturn ==
  /\ ck_pc = "loop"
  /\ ck_i = chunk_count
  /\ ck_pc' = "done"
  /\ UNCHANGED <<ck_length, chunk_count, chunk_size, ck_i, chunks>>
  /\ ChunksOnly

ChunksNext ==
  \/ ChunksSingle
  \/ ChunksCount
  \/ ChunksPush
  \/ ChunksReturn

IdleChunks ==
  /\ ck_length = 1
  /\ ck_pc = "done"
  /\ chunk_count = 0
  /\ chunk_size = 0
  /\ ck_i = 0
  /\ chunks = << <<0, 0>> >>

(***************************************************************************)
(* download: the speed sampler thread (ScopedThread, speed_counter_loop)   *)
(* and the chunk-write loop of inner_download_executer / download_slice,   *)
(* for one response of one call.  The Progress is the caller's: its speed  *)
(* field holds what was last stored there.  Time is in milliseconds; it    *)
(* does not pass beyond the moment a sleeping thread is due to wake.       *)
(***************************************************************************)
ChunkLen == 4096

SamplePeriod == 2000

WriterNap == 100

WindowCap == 20

Throttled_at_any_limit(published, limit) == published > limit

\* the condition of the inner while loop of the chunk-write loop
Throttled(published, limit) == published > limit /\ limit > 1024

RECURSIVE Sum(_)
Sum(samples) == IF samples = <<>> THEN 0 ELSE Head(samples) + Sum(Tail(samples))

\* buffer.push(sample) followed by `while buffer.len() > 20 { buffer.remove(0) }`
Pushed(samples, sample) ==
  LET all == Append(samples, sample)
  IN  IF Len(all) > WindowCap THEN SubSeq(all, Len(all) - WindowCap + 1, Len(all)) ELSE all

\* ScopedThread::new makes two flags: is_aborted stays in the ScopedThread,
\* the other one is moved into the thread
InitSpeed ==
  /\ max_download_speed \in {0, 1024, 1025, 100000}
  /\ speed \in {0, 100000, 250000}
  /\ speed_counter_input = 0
  /\ scoped_is_aborted = FALSE
  /\ finished = FALSE
  /\ sampler_pc = "spawned"
  /\ buffer = <<>>
  /\ wake_at = 0
  /\ sp_now = 0
  /\ writer_pc = "await"
  /\ sp_left \in 1..MaxChunks
  /\ sp_written = 0
  /\ sp_sleeps = 0

\* speed_counter_loop: the test of its while loop and, when it passes, one
\* pass of the body up to thread::sleep
SpeedCounterLoop ==
  /\ sampler_pc \in {"spawned", "sleeping"}
  /\ sampler_pc = "sleeping" => sp_now >= wake_at
  /\ IF finished
     THEN /\ buffer' = Pushed(buffer, speed_counter_input)
          /\ speed_counter_input' = 0
          /\ speed' = Sum(Pushed(buffer, speed_counter_input))
          /\ wake_at' = sp_now + SamplePeriod
          /\ sampler_pc' = "sleeping"
     ELSE /\ sampler_pc' = "returned"
          /\ UNCHANGED <<buffer, speed_counter_input, speed, wake_at>>
  /\ UNCHANGED <<max_download_speed, scoped_is_aborted, finished, sp_now, writer_pc, sp_left,
                 sp_written, sp_sleeps>>
  /\ SpeedOnly

\* response.chunk().await returns Some(chunk)
ChunkArrives ==
  /\ writer_pc = "await"
  /\ sp_left > 0
  /\ sp_left' = sp_left - 1
  /\ writer_pc' = "check"
  /\ UNCHANGED <<max_download_speed, speed, speed_counter_input, scoped_is_aborted, finished,
                 sampler_pc, buffer, wake_at, sp_now, sp_written, sp_sleeps>>
  /\ SpeedOnly

\* the test of the inner while loop
ThrottleCheck ==
  /\ writer_pc = "check"
  /\ writer_pc' = IF Throttled(speed, max_download_speed) THEN "sleep" ELSE "write"
  /\ UNCHANGED <<max_download_speed, speed, speed_counter_input, scoped_is_aborted, finished,
                 sampler_pc, buffer, wake_at, sp_now, sp_left, sp_written, sp_sleeps>>
  /\ SpeedOnly

\* Timer::after(100 ms)
ThrottleSleep ==
  /\ writer_pc = "sleep"
  /\ sp_sleeps < MaxSleeps
  /\ ~(sampler_pc = "sleeping" /\ wake_at < sp_now + WriterNap)
  /\ sp_now' = sp_now + WriterNap
  /\ sp_sleeps' = sp_sleeps + 1
  /\ writer_pc' = "check"
  /\ UNCHANGED <<max_download_speed, speed, speed_counter_input, scoped_is_aborted, finished,
                 sampler_pc, buffer, wake_at, sp_left, sp_written>>
  /\ SpeedOnly

\* file.write_all(&chunk) and speed_counter_input.fetch_add(chunk.len())
WriteChunk ==
  /\ writer_pc = "write"
  /\ sp_written' = sp_written + 1
  /\ speed_counter_input' = speed_counter_input + ChunkLen
  /\ writer_pc' = "await"
  /\ UNCHANGED <<max_download_speed, speed, scoped_is_aborted, finished, sampler_pc, buffer,
                 wake_at, sp_now, sp_left, sp_sleeps>>
  /\ SpeedOnly

\* the response is exhausted: the call returns and _speed_thread is dropped
CallReturns ==
  /\ writer_pc = "await"
  /\ sp_left = 0
  /\ writer_pc' = "returned"
  /\ scoped_is_aborted' = TRUE
  /\ UNCHANGED <<max_download_speed, speed, speed_counter_input, finished, sampler_pc,
                 buffer, wake_at, sp_now, sp_left, sp_written, sp_sleeps>>
  /\ SpeedOnly

\* the network is slow: a sample period goes by while the call is transferring
PeriodPasses ==
  /\ writer_pc \in {"await", "sleep"}
  /\ sp_now < MaxPeriods * SamplePeriod
  /\ ~(sampler_pc = "sleeping" /\ wake_at < sp_now + SamplePeriod)
  /\ sp_now' = sp_now + SamplePeriod
  /\ UNCHANGED <<max_download_speed, speed, speed_counter_input, scoped_is_aborted, finished,
                 sampler_pc, buffer, wake_at, writer_pc, sp_left, sp_written, sp_sleeps>>
  /\ SpeedOnly

SpeedNext ==
  \/ SpeedCounterLoop
  \/ ChunkArrives
  \/ ThrottleCheck
  \/ ThrottleSleep
  \/ WriteChunk
  \/ CallReturns
  \/ PeriodPasses

IdleSpeed ==
  /\ max_download_speed = 0
  /\ speed = 0
  /\ speed_counter_input = 0
  /\ scoped_is_aborted = TRUE
  /\ finished = FALSE
  /\ sampler_pc = "returned"
  /\ buffer = <<>>
  /\ wake_at = 0
  /\ sp_now = 0
  /\ writer_pc = "returned"
  /\ sp_left = 0
  /\ sp_written = 0
  /\ sp_sleeps = 0

(***************************************************************************)
(* Paths built from downloaded data: the target file of a library task     *)
(* (generate_libraries_downloads) and the target of a zip entry            *)
(* (decompression_all).  A path is absolute or not and has segments; the   *)
(* file system resolves `..` when the path is used.                        *)
(***************************************************************************)
Abs(segs) == [absolute |-> TRUE, segs |-> segs]

DataRoot == Abs(<<"data">>)

TempDir == Abs(<<"tmp">>)

LibrariesDir == Abs(<<"data", "libraries">>)

NativesRoot == Abs(<<"data", "versions", "v", "conic-natives">>)

\* the working directory of the launcher process
Cwd == Abs(<<"opt", "launcher">>)

\* what a descriptor or an archive may carry as a path
UntrustedPaths ==
  [absolute : BOOLEAN, segs : SeqsUpTo({"a", "b", ".."}, MaxSegs) \ { <<>> }]

\* Path::join: an absolute argument replaces the base
join(base, path) ==
  IF path.absolute THEN path
  ELSE [absolute |-> base.absolute, segs |-> base.segs \o path.segs]

\* the file the operating system reaches: `..` leaves the directory so far
RECURSIVE Walk(_, _)
Walk(done, segs) ==
  IF segs = <<>> THEN done
  ELSE IF Head(segs) = ".."
       THEN Walk(IF done = <<>> THEN <<>> ELSE SubSeq(done, 1, Len(done) - 1), Tail(segs))
       ELSE Walk(Append(done, Head(segs)), Tail(segs))

Reached(path) == Walk(<<>>, join(Cwd, path).segs)

InitPaths ==
  /\ pt_input \in [kind : {"library", "entry"}, path : UntrustedPaths, is_dir : {FALSE}]
                     \cup [kind : {"entry"}, path : UntrustedPaths, is_dir : {TRUE}]
  /\ pt_pc = "start"
  /\ pt_written = Cwd

\* generate_libraries_downloads builds the task and the download writes task.file
LibraryFileWritten ==
  /\ pt_pc = "start"
  /\ pt_input.kind = "library"
  /\ pt_written' = join(LibrariesDir, pt_input.path)
  /\ pt_pc' = "written"
  /\ UNCHANGED pt_input
  /\ PathsOnly

\* decompression_all: one pass of its loop
EntryExtracted ==
  /\ pt_pc = "start"
  /\ pt_input.kind = "entry"
  /\ pt_written' = IF pt_input.is_dir THEN pt_input.path
                                       ELSE join(NativesRoot, pt_input.path)
  /\ pt_pc' = "written"
  /\ UNCHANGED pt_input
  /\ PathsOnly

PathsNext ==
  \/ LibraryFileWritten
  \/ EntryExtracted

IdlePaths ==
  /\ pt_input = [kind |-> "library", path |-> [absolute |-> FALSE, segs |-> <<"a">>],
                 is_dir |-> FALSE]
  /\ pt_pc = "written"
  /\ pt_written = join(LibrariesDir, [absolute |-> FALSE, segs |-> <<"a">>])

(***************************************************************************)
(* launch::arguments::format.  A string is the sequence of its characters. *)
(* The regex is \$\{(.*?)}: a match starts at "${" and ends at the first   *)
(* "}" after it; replace_all goes on after the match.                      *)
(***************************************************************************)
TemplateChars == {"$", "{", "}", "a", "b", "c"}

FormatTemplates == SeqsUpTo(TemplateChars, MaxTemplate)

\* the args map of the caller: "a" and "b" are bound, "c" is not
FormatKeys == { <<"a">>, <<"b">> }

args_get(key) == IF key = <<"a">> THEN <<"x">> ELSE <<"y", " ", "z">>

\* position of the first "}" at or after i, 0 when there is none
RECURSIVE FirstClose(_, _)
FirstClose(template, i) ==
  IF i > Len(template) THEN 0
  ELSE IF template[i] = "}" THEN i ELSE FirstClose(template, i + 1)

\* the replacement closure
Replacement(key, is_game_option) ==
  LET value == IF key \in FormatKeys THEN args_get(key) ELSE key
  IN  IF (\E k \in 1..Len(value) : value[k] = " ") /\ is_game_option
      THEN <<"\"">> \o value \o <<"\"">>
      ELSE value

RECURSIVE ReplaceFrom(_, _, _)
ReplaceFrom(template, i, is_game_option) ==
  IF i > Len(template) THEN <<>>
  ELSE IF /\ template[i] = "$"
          /\ i < Len(template)
          /\ template[i + 1] = "{"
          /\ FirstClose(template, i + 2) # 0
       THEN Replacement(SubSeq(template, i + 2, FirstClose(template, i + 2) - 1),
                        is_game_option)
              \o ReplaceFrom(template, FirstClose(template, i + 2) + 1, is_game_option)
       ELSE <<template[i]>> \o ReplaceFrom(template, i + 1, is_game_option)

format(template, is_game_option) == ReplaceFrom(template, 1, is_game_option)

InitFormat ==
  /\ fm_template \in FormatTemplates
  /\ fm_is_game_option \in BOOLEAN
  /\ fm_pc = "start"
  /\ fm_out = <<>>

Format ==
  /\ fm_pc = "start"
  /\ fm_out' = format(fm_template, fm_is_game_option)
  /\ fm_pc' = "done"
  /\ UNCHANGED <<fm_template, fm_is_game_option>>
  /\ FormatOnly

FormatNext == Format

IdleFormat ==
  /\ fm_template = <<>>
  /\ fm_is_game_option = FALSE
  /\ fm_pc = "done"
  /\ fm_out = <<>>

(***************************************************************************)
(* Version::resolve, the first loop: the walk along inheritsFrom.  The     *)
(* versions directory holds one JSON per id; "none" is a JSON without      *)
(* inheritsFrom and "missing" is no readable file.  The requested version  *)
(* is "self".                                                              *)
(***************************************************************************)
VersionIds == {"a", "b", "c"}

InitWalk ==
  /\ wk_dir \in [VersionIds -> VersionIds \cup {"none", "missing"}]
  /\ inherits_from \in VersionIds \cup {"none"}
  /\ wk_versions = <<"self">>
  /\ wk_pc = "walk"

\* one pass of `while let Some(inherits_from_unwrap) = inherits_from`
WalkStep ==
  /\ wk_pc = "walk"
  /\ inherits_from # "none"
  /\ Len(wk_versions) < MaxWalk
  /\ IF wk_dir[inherits_from] = "missing"
     THEN /\ wk_pc' = "Err"
          /\ UNCHANGED <<inherits_from, wk_versions>>
     ELSE /\ wk_versions' = Append(wk_versions, inherits_from)
          /\ inherits_from' = wk_dir[inherits_from]
          /\ UNCHANGED wk_pc
  /\ UNCHANGED wk_dir
  /\ WalkOnly

\* inherits_from is None: the loop is left
WalkEnds ==
  /\ wk_pc = "walk"
  /\ inherits_from = "none"
  /\ wk_pc' = "joining"
  /\ UNCHANGED <<wk_dir, inherits_from, wk_versions>>
  /\ WalkOnly

WalkNext ==
  \/ WalkStep
  \/ WalkEnds

IdleWalk ==
  /\ wk_dir = [i \in VersionIds |-> "none"]
  /\ inherits_from = "none"
  /\ wk_versions = <<"self">>
  /\ wk_pc = "joining"

(***************************************************************************)
(* Specifications                                                          *)
(***************************************************************************)
\* the parts a specification does not exercise stay in their initial state
IdleDownload ==
  /\ download_config = [max_connections |-> 1, mirror |-> [libraries |-> {}, assets |-> {}]]
  /\ tasks = [t \in TaskIds |-> CHOOSE tpl \in Templates : tpl.type = "Libraries"]
  /\ disk = [f \in Files |-> NoFile]
  /\ run = 1
  /\ InitCall

IdleInstall == InitInstall /\ install_lock = FALSE

IdleCore == IdleDownload /\ IdleInstall /\ InitLaunch
IdleExt == IdleComplete /\ IdleReader /\ IdleMicrosoft /\ IdleStores /\ IdleCache /\ IdleRules /\ IdleResolve /\ IdleChunks /\ IdleSpeed /\ IdlePaths /\ IdleFormat /\ IdleWalk

InitD == InitDownload /\ IdleInstall /\ InitLaunch /\ IdleExt
InitI == IdleDownload /\ InitInstall /\ InitLaunch /\ IdleExt
InitL == IdleDownload /\ IdleInstall /\ InitLaunch /\ IdleExt
InitC == IdleCore /\ InitComplete /\ IdleReader /\ IdleMicrosoft /\ IdleStores /\ IdleCache /\ IdleRules /\ IdleResolve /\ IdleChunks /\ IdleSpeed /\ IdlePaths /\ IdleFormat /\ IdleWalk
InitR == IdleCore /\ IdleComplete /\ InitReader /\ IdleMicrosoft /\ IdleStores /\ IdleCache /\ IdleRules /\ IdleResolve /\ IdleChunks /\ IdleSpeed /\ IdlePaths /\ IdleFormat /\ IdleWalk
InitM == IdleCore /\ IdleComplete /\ IdleReader /\ InitMicrosoft /\ IdleStores /\ IdleCache /\ IdleRules /\ IdleResolve /\ IdleChunks /\ IdleSpeed /\ IdlePaths /\ IdleFormat /\ IdleWalk
InitS == IdleCore /\ IdleComplete /\ IdleReader /\ IdleMicrosoft /\ InitStores /\ IdleCache /\ IdleRules /\ IdleResolve /\ IdleChunks /\ IdleSpeed /\ IdlePaths /\ IdleFormat /\ IdleWalk
InitV == IdleCore /\ IdleComplete /\ IdleReader /\ IdleMicrosoft /\ IdleStores /\ InitCache /\ IdleRules /\ IdleResolve /\ IdleChunks /\ IdleSpeed /\ IdlePaths /\ IdleFormat /\ IdleWalk
InitK == IdleCore /\ IdleComplete /\ IdleReader /\ IdleMicrosoft /\ IdleStores /\ IdleCache /\ InitRules /\ IdleResolve /\ IdleChunks /\ IdleSpeed /\ IdlePaths /\ IdleFormat /\ IdleWalk
InitRv == IdleCore /\ IdleComplete /\ IdleReader /\ IdleMicrosoft /\ IdleStores /\ IdleCache /\ IdleRules /\ InitResolve /\ IdleChunks /\ IdleSpeed /\ IdlePaths /\ IdleFormat /\ IdleWalk
InitCk == IdleCore /\ IdleComplete /\ IdleReader /\ IdleMicrosoft /\ IdleStores /\ IdleCache /\ IdleRules /\ IdleResolve /\ InitChunks /\ IdleSpeed /\ IdlePaths /\ IdleFormat /\ IdleWalk
InitSp == IdleCore /\ IdleComplete /\ IdleReader /\ IdleMicrosoft /\ IdleStores /\ IdleCache /\ IdleRules /\ IdleResolve /\ IdleChunks /\ InitSpeed /\ IdlePaths /\ IdleFormat /\ IdleWalk
InitPt == IdleCore /\ IdleComplete /\ IdleReader /\ IdleMicrosoft /\ IdleStores /\ IdleCache /\ IdleRules /\ IdleResolve /\ IdleChunks /\ IdleSpeed /\ InitPaths /\ IdleFormat /\ IdleWalk
InitFm == IdleCore /\ IdleComplete /\ IdleReader /\ IdleMicrosoft /\ IdleStores /\ IdleCache /\ IdleRules /\ IdleResolve /\ IdleChunks /\ IdleSpeed /\ IdlePaths /\ InitFormat /\ IdleWalk
InitWk == IdleCore /\ IdleComplete /\ IdleReader /\ IdleMicrosoft /\ IdleStores /\ IdleCache /\ IdleRules /\ IdleResolve /\ IdleChunks /\ IdleSpeed /\ IdlePaths /\ IdleFormat /\ InitWalk

SpecDownload == InitD /\ [][DownloadNext]_vars
SpecInstall == InitI /\ [][InstallNext]_vars
SpecLaunch == InitL /\ [][LaunchNext]_vars
SpecComplete == InitC /\ [][CompleteNext]_vars
SpecReader == InitR /\ [][ReaderNext]_vars
SpecMicrosoft == InitM /\ [][MicrosoftNext]_vars
SpecStores == InitS /\ [][StoresNext]_vars
SpecCache == InitV /\ [][CacheNext]_vars
SpecRules == InitK /\ [][RulesNext]_vars
SpecResolve == InitRv /\ [][ResolveNext]_vars
SpecChunks == InitCk /\ [][ChunksNext]_vars
SpecSpeed == InitSp /\ [][SpeedNext]_vars
SpecPaths == InitPt /\ [][PathsNext]_vars
SpecFormat == InitFm /\ [][FormatNext]_vars
SpecWalk == InitWk /\ [][WalkNext]_vars

Init == InitD
Next == DownloadNext
Spec == SpecDownload

(***************************************************************************)
(* Properties                                                              *)
(***************************************************************************)

\* C1: when download_concurrent has returned success, the target file of
\* every task whose checksum is Sha1(h) exists and its SHA-1 digest equals h
\* up to letter case.
C1_Sha1HoldsAfterSuccess ==
  dc_result = Ok =>
    \A t \in TaskIds :
      tasks[t].checksum.kind = "Sha1" =>
        /\ disk[tasks[t].file] # NoFile
        /\ Sha1Of(disk[tasks[t].file]) = ToLower(tasks[t].checksum.hex)

\* an install is executing: its future is alive and has not been told to abort
Executing(i) == i_pc[i] \in Running /\ ~is_aborted[i]

\* C2: at no moment are two installs executing, and a call that passes the
\* AlreadyInstalling check does so only while no install is executing.
C2_OneInstallAtATime ==
  /\ Cardinality({ i \in InstallIds : Executing(i) }) <= 1
  /\ \A i \in InstallIds :
       i_pc[i] = "checked" => \A o \in InstallIds : o # i => ~Executing(o)

\* C3: an install whose handle was aborted while it was running ends with
\* Aborted and has not written .install.lock.
C3_CancelledInstallLeavesNoMarker ==
  \A i \in InstallIds :
    (cancelled[i] /\ i_pc[i] = "returned") =>
      (i_result[i] = "Aborted" /\ ~wrote_lock[i])

ExpectedStages(has_mod_loader) ==
  IF has_mod_loader THEN <<"generate", "download", "java", "modloader">>
  ELSE <<"generate", "download", "java">>

C6_AtMostFiveAttempts ==
  /\ [](\A t \in TaskIds :
          /\ Len(attempts[t]) <= 5
          /\ Len(attempts[t]) = retried[t]
          /\ t_state[t] = "failed" =>
               /\ Len(attempts[t]) = 5
               /\ dc_pc = "done"
               /\ dc_result.task = t
               /\ dc_result.kind \notin {"Ok", "pending"}
          /\ (dc_pc = "done" /\ dc_result.kind \notin {"Ok", "pending", "UrlParse"}) =>
               t_state[dc_result.task] = "failed")
  /\ [][\A t \in TaskIds :
          (t_state[t] = "ok" /\ run' = run) => (attempts'[t] = attempts[t] /\ t_state'[t] = "ok")]_vars

C6_Witness ==
  \E t \in TaskIds :
    t_state[t] = "failed" /\ Len(attempts[t]) = 5 /\ dc_result.task = t

\* the mirrors configured for the kind of task t
KindMirrors(t) ==
  CASE download_tasks[t].type = "Libraries" -> download_config.mirror.libraries
    [] download_tasks[t].type = "Assets" -> download_config.mirror.assets
    [] OTHER -> {}

\* C7: no attempt of a task uses a mirror an earlier attempt of that task
\* used (every earlier attempt failed); once all mirrors of the kind have
\* failed the attempt uses the original URL; with the two libraries mirrors,
\* attempts 1 and 2 use the two mirrors and attempt 3 the raw URL.
C7_MirrorRotation ==
  \A t \in TaskIds :
    \A j \in 1..Len(attempts[t]) :
      /\ attempts[t][j] # NoMirror =>
           /\ attempts[t][j] \in KindMirrors(t)
           /\ \A i \in 1..(j - 1) : attempts[t][i] # attempts[t][j]
      /\ KindMirrors(t) \subseteq { attempts[t][i] : i \in 1..(j - 1) } =>
           /\ attempts[t][j] = NoMirror
           /\ j = Len(attempts[t]) => cur[t].task.url = tasks[t].url
      /\ (j = 3 /\ Cardinality(KindMirrors(t)) = 2) =>
           /\ { attempts[t][1], attempts[t][2] } = KindMirrors(t)
           /\ attempts[t][3] = NoMirror

C7_Witness ==
  \E t \in TaskIds :
    /\ download_tasks[t].type = "Libraries"
    /\ Len(attempts[t]) = 3
    /\ attempts[t][1] # NoMirror /\ attempts[t][2] # NoMirror
    /\ attempts[t][1] # attempts[t][2]
    /\ attempts[t][3] = NoMirror
    /\ cur[t].task.url = tasks[t].url

CanonicalPrefix(type) == IF type = "Libraries" THEN LibrariesPrefix ELSE AssetsPrefix

ChecksummedFilesIntact ==
  \A t \in TaskIds :
    tasks[t].checksum # ChecksumNone =>
      /\ disk[tasks[t].file] # NoFile
      /\ HasherVerify(disk[tasks[t].file], tasks[t].checksum)

\* C9: in a run of the download step that follows a successful run on an
\* unchanged disk (the files that carry a checksum being intact), the
\* pre-filter drops every task and no file is written.
C9_RerunWritesNothing ==
  (run >= 2 /\ dc_pc # "start" /\ ChecksummedFilesIntact) =>
    /\ \A t \in TaskIds : t_state[t] = "skipped"
    /\ written = {}

\* C10: at most one launch is in progress at a time.
C10_OneLaunchAtATime ==
  Cardinality({ l \in LaunchIds : l_pc[l] \in LaunchActive }) <= 1

TenDays == 10 * 24 * 60 * 60

\* C11: a completeness marker lets complete_files skip the verification of
\* its kind only while the time the marker records is less than 10 days
\* before the current time; an older marker is treated as absent and the
\* verification runs.
C11_MarkerHonouredUnderTenDays ==
  \A k \in MarkerKinds :
    skip_age[k] # -1 => skip_age[k] < TenDays

\* the events the lines of a sequence call for, in order
RECURSIVE EventsFor(_)
EventsFor(lines) ==
  IF lines = <<>> THEN <<>>
  ELSE EventsFor(SubSeq(lines, 1, Len(lines) - 1)) \o
       (IF \E j \in 1..(Len(lines[Len(lines)]) - 1) :
             /\ lines[Len(lines)][j] \in {"lwjgl", "LWJGL"}
             /\ lines[Len(lines)][j + 1] \in {"version", "Version"}
        THEN <<LaunchSuccess>> ELSE <<>>) \o <<LogEvent(lines[Len(lines)])>>

\* C12: when the reader loop has ended, every line the child wrote to stdout
\* has been forwarded as a log event and every line containing "lwjgl
\* version" in any letter case has produced a launch_success event, whatever
\* the interleaving of the child's writes, its exit and the loop.
C12_EveryLineForwarded ==
  r_pc = "wait_with_output" => events = EventsFor(child_wrote)

\* C13: check_and_refresh_account on a stored Microsoft account goes on to
\* refresh exactly when expires_on - now is less than 4 hours; otherwise it
\* returns at once, has made no network call and leaves
\* accounts.microsoft.json as it was.
C13_RefreshUnderFourHours ==
  [][\A p \in Callers :
       (ms_call[p].pc = "idle" /\ ms_call'[p].op = "check_and_refresh_account"
          /\ ms_has_account(ms_file, ms_call'[p].uuid)) =>
         LET account == ms_get_account(ms_file, ms_call'[p].uuid)
         IN  /\ (ms_call'[p].pc = "refresh") <=> (account.expires_on - clock < 4 * 3600)
             /\ ms_call'[p].pc # "refresh" =>
                   /\ ms_call'[p].pc = "returned"
                   /\ ms_call'[p].ret = "Ok"
                   /\ ms_call'[p].net = 0
                   /\ ms_file' = ms_file]_vars

C13_Witness ==
  \E p, q \in Callers :
    /\ ms_call[p].op = "check_and_refresh_account" /\ ms_call[p].pc = "returned"
    /\ ms_call[p].ret = "Ok" /\ ms_call[p].net = 0
    /\ ms_call[p].seen.expires_on - ms_call[p].at = 4 * 3600
    /\ ms_call[q].op = "check_and_refresh_account" /\ ms_call[q].pc = "refresh"
    /\ ms_call[q].seen.expires_on - ms_call[q].at = 2 * 3600

\* C14: a refresh of the Microsoft store is atomic with respect to the other
\* operations on the store: no update made between the read and the write
\* of the refresh is lost, so an account removed by delete_account and not
\* added since is not in the store.
C14_RefreshLosesNoUpdate ==
  \A u \in ms_deleted : ~ms_has_account(ms_file, u)

\* C15 as stated: for each store and every prior state of it, add_account(a)
\* followed by delete_account of a's identifier leaves the store equal to
\* the store before the add.
C15_AddThenDeleteRestores ==
  rt.phase = "deleted" => StoreView(st_kind, store) = rt.prior

\* C15 amended: the same, for every prior state that holds no account of
\* a's identity (profile uuid for Microsoft, the (api-root,
\* account-identifier, profile-uuid) triple for authlib-injector).
C15_AddThenDeleteRestoresFresh ==
  (rt.phase = "deleted" /\ rt.fresh) => StoreView(st_kind, store) = rt.prior

C15_Witness ==
  /\ rt.phase = "deleted" /\ rt.fresh
  /\ st_kind = "authlib"
  /\ rt.prior.accounts # {}

\* the (api-root, account-identifier, profile-uuid) triple of an account
Triple(account) == <<account.api_root, account.account_identifier, account.profile_uuid>>

\* C16: after add_account(a) the authlib-injector store holds a exactly once
\* and otherwise exactly the entries it had before whose triple differs from
\* a's; the store never holds two accounts of the same triple.
C16_AddDedupesByTriple ==
  /\ [](st_kind = "authlib" =>
          \A e, o \in al_list_accounts(store) :
            Triple(e.account) = Triple(o.account) => e = o)
  /\ [][(st_kind = "authlib" /\ st_last'.op = "add_account") =>
          LET a == st_last'.account
          IN  /\ Cardinality({ e \in al_list_accounts(store') : e.account = a }) = 1
              /\ { e \in al_list_accounts(store') : e.account # a } =
                   { e \in al_list_accounts(store) : Triple(e.account) # Triple(a) }]_vars

C16_Witness ==
  /\ st_kind = "authlib"
  /\ st_last.op = "add_account"
  /\ rt.phase = "added" /\ ~rt.fresh
  /\ Cardinality(al_list_accounts(store)) = 2
  /\ Cardinality(al_list_accounts(st_prior)) = 2

\* C17: relogin_account on the authlib-injector store succeeds and stores
\* the new tokens exactly when the stored profile-uuid is the id of the
\* response's selectedProfile or of an entry of its availableProfiles;
\* otherwise it fails with ProfileUnavailable and the store is unchanged.
C17_ReloginMatchesAnyProfile ==
  (st_kind = "authlib" /\ st_last.op = "relogin_account") =>
    LET matches == \/ st_last.response.selected_profile = st_last.account.profile_uuid
                   \/ \E j \in DOMAIN st_last.response.available_profiles :
                        st_last.response.available_profiles[j] = st_last.account.profile_uuid
    IN  /\ st_last.ret = "Ok" <=> matches
        /\ matches => \E e \in al_list_accounts(store) :
                         e.account.profile_uuid = st_last.account.profile_uuid /\ e.account.access_token = "t1"
        /\ ~matches => (st_last.ret = "ProfileUnavailable" /\ store = st_prior)

\* C18: a version-list command returns its cached payload without fetching
\* only when a cache entry exists and now - timestamp is less than 2 hours;
\* in every other case it fetches and (now, result) becomes the entry.
C18_CacheServedUnderTwoHours ==
  vl_call.pc \in {"fetch", "returned"} /\ vl_call.now # 0 =>
    /\ vl_call.hit <=> (vl_call.seen.some /\ vl_call.now - vl_call.seen.ts < 2 * 60 * 60)
    /\ (vl_call.pc = "returned" /\ ~vl_call.hit /\ vl_call.ret = "Ok") =>
          vl_cache[vl_call.kind] = SomeCache(vl_call.now, vl_call.payload)

\* a rule matches: its os sub-predicate matches the platform and every
\* feature of its features map is in the enabled set
RuleMatches(rule, enabled, platform) ==
  /\ rule.os.object =>
       /\ (rule.os.name # "" => rule.os.name = platform.os_family)
       /\ (rule.os.version # "" => RegexIsMatch(rule.os.version, platform.os_version))
       /\ (rule.os.arch # "" => rule.os.arch = platform.arch)
  /\ \A j \in 1..Len(rule.features.entries) :
       rule.features.entries[j].name \in { enabled[i] : i \in 1..Len(enabled) }

\* the action of the last matching rule, disallow when no rule matches
Verdict(rules, enabled, platform) ==
  LET matching == { j \in 1..Len(rules) :
                      rules[j].action # "" /\ RuleMatches(rules[j], enabled, platform) }
  IN  IF matching = {} THEN "false"
      ELSE IF rules[CHOOSE j \in matching : \A i \in matching : i <= j].action = "allow"
           THEN "true" ELSE "false"

\* C19: check_allowed allows an empty rule list; for a non-empty list the
\* last matching rule decides and no matching rule disallows, a rule
\* matching iff its os sub-predicate matches the platform and every feature
\* of its features map is enabled, in whatever order the features are
\* listed on either side (features maps whose values are all true).
C19_LastMatchingRuleDecides ==
  (rl_ret # "none" /\ \A j \in 1..Len(rl_rules) :
                        \A i \in 1..Len(rl_rules[j].features.entries) :
                          rl_rules[j].features.entries[i].value) =>
    rl_ret = IF rl_rules = <<>> THEN "true" ELSE Verdict(rl_rules, rl_enabled, rl_platform)

\* the minimumLauncherVersion of the resolved version: the maximum over the chain
RECURSIVE ResolvedMinimum(_)
ResolvedMinimum(chain) ==
  IF chain = <<>> THEN 0
  ELSE Max(unwrap_or(Head(chain).minimum_launcher_version, 0), ResolvedMinimum(Tail(chain)))

\* the resolved arguments of the levels of the chain, those of the root first
RECURSIVE MergedArguments(_, _, _)
MergedArguments(chain, enabled, platform) ==
  IF chain = <<>> THEN NoResolvedArguments
  ELSE LET rest == MergedArguments(Tail(chain), enabled, platform)
           own == to_resolved(Head(chain).arguments, enabled, platform)
       IN  [game |-> rest.game \o own.game, jvm |-> rest.jvm \o own.jvm]

\* C20: for any inheritance chain the resolved JVM and game arguments are
\* exactly the legacy defaults when the resolved minimumLauncherVersion is
\* below 21, and exactly the merged resolved arguments of the chain when it
\* is 21 or more.
C20_LegacyDefaultsBelow21 ==
  rv_ret = "Ok" /\ rv_chain # <<>> =>
    rv_arguments = IF ResolvedMinimum(rv_chain) < 21
                   THEN [game |-> DEFAULT_GAME_ARGS, jvm |-> DEFAULT_JVM_ARGS]
                   ELSE MergedArguments(rv_chain, rv_enabled, rv_platform)


\* C21: every resolved version that resolve returns successfully has a
\* `client` entry in its downloads, an assetIndex, a non-empty library list,
\* a non-empty jvm argument list and a javaVersion component, and a chain
\* that cannot satisfy all of these makes resolve fail.
C21_ResolvedVersionComplete ==
  rv_ret # "none" /\ rv_chain # <<>> =>
    (rv_ret = "Ok" <=>
       /\ "client" \in rv_resolved.downloads
       /\ rv_resolved.asset_index # ""
       /\ rv_resolved.libraries # <<>>
       /\ rv_arguments.jvm # <<>>
       /\ rv_resolved.java_version # "")

\* the library lists of the chain, the root's first and the requested version's last
RECURSIVE RootDown(_)
RootDown(chain) ==
  IF chain = <<>> THEN <<>>
  ELSE RootDown(Tail(chain)) \o (IF Head(chain).libraries.some THEN Head(chain).libraries.list ELSE <<>>)

\* C30: the flattened library list of a resolved version is the
\* concatenation of the library lists of the chain from the root ancestor
\* down to the requested version, the order inside each level preserved.
C30_LibrariesRootFirst ==
  rv_ret = "Ok" /\ rv_chain # <<>> =>
    rv_resolved.libraries = Libraries_to_resolved(RootDown(rv_chain), rv_platform)


\* C22: the number of chunks computed for a content length is 1 up to 4 MB,
\* len/2 MB + 1 from 4 to 30 MB, len/4 MB + 1 from 30 to 100 MB and
\* len/10 MB + 1 above 100 MB (integer division, MB = 1 000 000 bytes).
C22_ChunkCountByBand ==
  ck_pc = "done" =>
    Len(chunks) = IF ck_length <= 4 * MB THEN 1
                  ELSE IF ck_length <= 30 * MB THEN (ck_length \div (2 * MB)) + 1
                  ELSE IF ck_length <= 100 * MB THEN (ck_length \div (4 * MB)) + 1
                  ELSE (ck_length \div (10 * MB)) + 1

RECURSIVE SizeSum(_)
SizeSum(ranges) ==
  IF ranges = <<>> THEN 0
  ELSE (Head(ranges)[2] - Head(ranges)[1] + 1) + SizeSum(Tail(ranges))

\* C28: for every content length of at least 1 the returned byte ranges
\* partition [0, len-1]: the first starts at 0, each next one starts one past
\* the end of the previous one, every range has lo <= hi, the last ends at
\* len-1, the sizes sum to len; 20 000 000 bytes give 11 ranges, the last
\* one (18 181 810, 19 999 999).
C28_ChunksPartition ==
  ck_pc = "done" /\ ck_length >= 1 =>
    /\ chunks # <<>>
    /\ chunks[1][1] = 0
    /\ \A k \in 1..Len(chunks) : chunks[k][1] <= chunks[k][2]
    /\ \A k \in 1..(Len(chunks) - 1) : chunks[k + 1][1] = chunks[k][2] + 1
    /\ chunks[Len(chunks)][2] = ck_length - 1
    /\ SizeSum(chunks) = ck_length
    /\ ck_length = 20 * MB =>
         /\ Len(chunks) = 11
         /\ \A k \in 1..10 : chunks[k][2] - chunks[k][1] + 1 = 1818181
         /\ chunks[11] = <<18181810, 19999999>>

C28_Witness ==
  /\ ck_pc = "done"
  /\ ck_length = 20 * MB
  /\ Len(chunks) = 11
  /\ chunks[11][2] - chunks[11][1] + 1 > chunk_size


C29_SamplerPublishesWindow ==
  /\ (writer_pc # "returned" /\ sampler_pc # "spawned") =>
       /\ sampler_pc = "sleeping"
       /\ Len(buffer) = IF (sp_now \div 2000) + 1 > 20 THEN 20 ELSE (sp_now \div 2000) + 1
       /\ speed = Sum(buffer)
  /\ (writer_pc = "returned" /\ sampler_pc = "sleeping") => scoped_is_aborted


IsUnder(dir, file) ==
  /\ Len(file) >= Len(dir.segs)
  /\ SubSeq(file, 1, Len(dir.segs)) = dir.segs

\* C24: every file written while installing or launching lies under the
\* data root or the system temp dir, whatever the descriptors and archives
\* contain: a library path or zip entry name that is absolute or has `..`
\* segments never causes a write outside the root.
C24_WritesStayUnderRoot ==
  pt_pc = "written" =>
    IsUnder(DataRoot, Reached(pt_written)) \/ IsUnder(TempDir, Reached(pt_written))

\* the output the template has when a bound key gives its value and an
\* unbound one is left as it stands
RECURSIVE Substituted(_, _)
Substituted(template, i) ==
  IF i > Len(template) THEN <<>>
  ELSE IF /\ template[i] = "$"
          /\ i < Len(template)
          /\ template[i + 1] = "{"
          /\ FirstClose(template, i + 2) # 0
       THEN LET close == FirstClose(template, i + 2)
                key == SubSeq(template, i + 2, close - 1)
            IN  (IF key \in FormatKeys THEN args_get(key) ELSE SubSeq(template, i, close))
                  \o Substituted(template, close + 1)
       ELSE <<template[i]>> \o Substituted(template, i + 1)

\* C25: template substitution replaces `${name}` by the value bound to name
\* when the key is known and leaves the text `${name}` unchanged when the
\* key is unknown.
C25_UnknownKeyLeftAsIs ==
  fm_pc = "done" => fm_out = Substituted(fm_template, 1)


\* tasks other than t that are in flight on mirror m of the kind of t
InFlightOn(m, t) ==
  Cardinality({ o \in TaskIds \ {t} :
                  /\ t_state[o] = "inflight"
                  /\ cur[o].mirror = m
                  /\ download_tasks[o].type = download_tasks[t].type })

C27_MismatchLeavesNoFile ==
  (dc_pc = "done" /\ dc_result.kind = "Sha1Missmatch") =>
    \/ disk[tasks[dc_result.task].file] = NoFile
    \/ HasherVerify(disk[tasks[dc_result.task].file], tasks[dc_result.task].checksum)


\* C32: a completeness marker is written only after a full verification pass
\* has succeeded: at the moment the marker of a kind is written every file
\* of that task list that carries a checksum is on disk with matching
\* content; if a file could not be downloaded the marker is not written.
C32_MarkerOnlyAfterVerifiedFiles ==
  [][ \A k \in MarkerKinds :
        (markers'[k] # markers[k] /\ markers'[k].exists) => cf_disk'[k] = "good" ]_vars


\* C31: resolve terminates for every content of the versions directory: the
\* walk follows inheritsFrom through finitely many descriptors and never
\* visits the same descriptor twice.
C31_WalkVisitsEachOnce ==
  \A i, j \in 1..Len(wk_versions) : i # j => wk_versions[i] # wk_versions[j]


\* C33: the Java runtime install stage reports success only if every File
\* entry of the runtime manifest was downloaded and passed its checksum; if
\* a file still fails after its retries the stage reports failure, so that
\* install does not go on to write .install.lock.
C33_JavaStageOkMeansFilesGood ==
  \A i \in InstallIds :
    /\ InSeq("java", stage_log[i]) => java_file[i] = "good"
    /\ wrote_lock[i] => java_file[i] = "good"

\* C34: the install lock is released when an install ends: after an install
\* has finished on its own, with success or with an error and without any
\* cancel, a later cmd_create_install_task call is accepted; a call is
\* rejected with AlreadyInstalling only while another install is under way.
C34_RejectedOnlyWhileInstalling ==
  [][ \A j \in InstallIds :
        (i_result[j] = "none" /\ i_result'[j] = "AlreadyInstalling") =>
          \E i \in InstallIds \ {j} : i_pc[i] \in Running ]_vars


ExecutingOn(type, m) ==
  Cardinality({ t \in InFlight : download_tasks[t].type = type /\ cur[t].mirror = m })

\* C35: during a download_concurrent call the in-flight counter of every
\* mirror equals the number of attempts executing on that mirror, so it is
\* never below 0 and every increment is matched by one decrement when the
\* attempt ends; all counters are 0 when the call returns success.
C35_CountersMatchAttempts ==
  /\ \A m \in DOMAIN mirror_usage.libraries : mirror_usage.libraries[m] >= 0
  /\ \A m \in DOMAIN mirror_usage.assets : mirror_usage.assets[m] >= 0
  /\ dc_pc = "streaming" =>
       /\ \A m \in DOMAIN mirror_usage.libraries :
            mirror_usage.libraries[m] = ExecutingOn("Libraries", m)
       /\ \A m \in DOMAIN mirror_usage.assets :
            mirror_usage.assets[m] = ExecutingOn("Assets", m)
  /\ (dc_pc = "done" /\ dc_result = Ok) =>
       /\ \A m \in DOMAIN mirror_usage.libraries : mirror_usage.libraries[m] = 0
       /\ \A m \in DOMAIN mirror_usage.assets : mirror_usage.assets[m] = 0

C35_Witness ==
  /\ dc_pc = "done" /\ dc_result = Ok
  /\ \E t \in TaskIds :
       /\ t_state[t] = "ok"
       /\ Len(attempts[t]) >= 2
       /\ attempts[t][1] # NoMirror /\ attempts[t][2] # NoMirror
  /\ \A m \in DOMAIN mirror_usage.libraries : mirror_usage.libraries[m] = 0
  /\ \A m \in DOMAIN mirror_usage.assets : mirror_usage.assets[m] = 0

\* C39: in the DownloadFiles phase of download_concurrent, progress.completed
\* never exceeds progress.total and counts the tasks that have succeeded,
\* once each (failed attempts and retries do not count); when the call
\* returns success completed equals total, which is the number of tasks that
\* survived the pre-filter.
C39_CompletedCountsSucceededTasks ==
  (dc_pc # "start" /\ progress.step = "DownloadFiles") =>
    /\ progress.completed <= progress.total
    /\ progress.completed = Cardinality({ t \in TaskIds : t_state[t] = "ok" })
    /\ progress.total = Cardinality({ t \in TaskIds : t_state[t] # "skipped" })
    /\ (dc_pc = "done" /\ dc_result = Ok) => progress.completed = progress.total

C39_Witness ==
  /\ dc_pc = "done" /\ dc_result = Ok
  /\ progress.step = "DownloadFiles"
  /\ progress.completed = progress.total
  /\ progress.total >= 1
  /\ \E t \in TaskIds : t_state[t] = "ok" /\ retried[t] >= 2


\* C36: a mod-loader version-list command called with Minecraft version v
\* never returns a list that was fetched for a different Minecraft version,
\* for any sequence of calls with different versions and any cache state.
C36_ReturnedListMatchesMcversion ==
  (vl_call.pc = "returned" /\ vl_call.ret = "Ok" /\ vl_call.kind # "minecraft") =>
    vl_call.payload.mcversion = vl_call.mcversion


\* C37: Microsoft refresh_account(uuid) returns the refreshed account whose
\* profile uuid equals uuid, for any number of stored accounts and any
\* position of that account in the store, and returns AccountNotfound when
\* no stored account has that uuid.
C37_RefreshReturnsRequestedAccount ==
  (st_kind = "microsoft" /\ st_last.op = "refresh_account" /\ st_last.ret # "Network") =>
    IF ms_has_account(st_prior, st_last.uuid)
    THEN st_last.ret = "Ok" /\ st_last.got = st_last.uuid
    ELSE st_last.ret = "AccountNotfound"

\* C38: if a network step of a Microsoft refresh fails (refresh_account or
\* refresh_all_accounts, for any account in the store), the call returns the
\* error and accounts.microsoft.json is left exactly as it was before the
\* call.
C38_FailedRefreshLeavesFile ==
  (st_kind = "microsoft" /\ st_last.op \in RefreshOps /\ st_last.failed_at # 0) =>
    /\ st_last.ret = "Network"
    /\ store = st_prior

C38_Witness ==
  /\ st_kind = "microsoft"
  /\ st_last.op \in RefreshOps
  /\ st_last.ret = "Network"
  /\ st_last.failed_at = 2
  /\ Len(ms_list_accounts(store)) = 2
  /\ store = st_prior

\* C40: after any sequence of add_account, relogin_account, delete_account
\* and refresh operations on the Microsoft store, no two stored accounts
\* have the same profile uuid.
C40_NoTwoAccountsOfOneUuid ==
  st_kind = "microsoft" =>
    \A i, j \in 1..Len(ms_list_accounts(store)) :
      i # j => ms_list_accounts(store)[i].uuid # ms_list_accounts(store)[j].uuid

====
